---- MODULE Spec2Model ----
(***************************************************************************)
(* The schema handling of kartothek (kartothek/core/common_metadata.py):   *)
(* the SchemaWrapper value, the null-column reference resolver             *)
(* _determine_schemas_to_compare with validate_compatible and              *)
(* validate_shared_columns, executed one loop iteration per step, and      *)
(* normalize_type, normalize_column_order, make_meta, the serialization    *)
(* of a schema and the schema store.                                       *)
(*                                                                         *)
(* A field is [name, type]; a schema is [fields, metadata, origin].        *)
(* metadata.pandas says whether the b"pandas" key is present,              *)
(* metadata.pandas_version is the version tag stored in it,                *)
(* metadata.index_columns its "index_columns" and metadata.columns its     *)
(* "columns", a list of column descriptors.  An                            *)
(* origin is a set of labels; a label is a sequence so that the suffix     *)
(* remove_metadata adds can be appended.  A Python None is the empty       *)
(* sequence and a value v that may be None is << v >>.  Positions in a     *)
(* sequence count from 1; get_field_index is -1 for an absent field.       *)
(*                                                                         *)
(* Inputs are SchemaWrapper values with unique field names; those of       *)
(* validate_compatible are without index fields, so that _schema_compat    *)
(* leaves them as they are.  The                                           *)
(* nullable flag and the per-field metadata of a field play no part in the *)
(* operations modelled and are left out, as are the texts of the warning   *)
(* and of the error message.  The two ValueErrors of validate_compatible   *)
(* are told apart by the place that raises them: MixedDescriptorError in   *)
(* the resolver, IncompatibleSchemaError in the comparison.                *)
(*                                                                         *)
(* Spec and SpecShared are calls of the two validators.  The other         *)
(* operations of the module run in specifications of their own, on the     *)
(* variables args (the arguments of the call), locals (its local           *)
(* variables) and store (the key-value store).  SpecFmt is the rendering   *)
(* of the origins in the message of a schema violation, SpecSource the     *)
(* intake source KartothekDatasetSource with the LazyStore of              *)
(* kartothek/core/utils.py.                                                *)
(***************************************************************************)
EXTENDS Integers, Sequences, FiniteSets, TLC

VARIABLES op, schemas, ignore_pandas, pc, i, reference, null_cols_in_reference,
          schemas_to_evaluate, j, seen, result, heap, args, locals, store

vars == << op, schemas, ignore_pandas, pc, i, reference, null_cols_in_reference,
           schemas_to_evaluate, j, seen, result, heap, args, locals, store >>

\* The variables of the calls of the other operations: the arguments of the
\* call, its local variables and the key-value store.
frame == << args, locals, store >>

\* The variables of the two validators.
validation == << schemas, ignore_pandas, i, reference, null_cols_in_reference,
                schemas_to_evaluate, j, seen, heap >>

(***************************************************************************)
(* Bounds of the model and the universe the inputs are drawn from.         *)
(***************************************************************************)
MaxSchemas == 3

NullType == "null"

F(n, t) == [name |-> n, type |-> t]

\* The column layouts of the partitions handed to the validator: layouts
\* over the columns a, b, c that differ in null columns, in column order,
\* in a concrete type and in the columns present.
FieldLists ==
    { << F("a", "int64"), F("b", "null") >>,
      << F("b", "int64"), F("a", "null") >>,
      << F("a", "null"), F("b", "int64") >>,
      << F("a", "int64"), F("b", "int64") >>,
      << F("a", "string"), F("b", "int64") >>,
      << F("a", "int64") >>,
      << F("a", "null"), F("b", "null"), F("c", "int64") >>,
      << F("a", "int64"), F("b", "int64"), F("c", "null") >> }

\* pd.__version__ of the running library and the version tag of the writer.
PandasVersion == "1.0.0"

WrittenVersions == {"0.24.0"}

NoPandas ==
    [pandas |-> FALSE, pandas_version |-> "", index_columns |-> << >>, columns |-> << >>]

\* A column descriptor of the pandas metadata.
Descriptor(name, field_name, pandas_type, numpy_type, metadata) ==
    [name |-> name, field_name |-> field_name, pandas_type |-> pandas_type,
     numpy_type |-> numpy_type, metadata |-> metadata]

\* An entry of "index_columns": the dictionary of a range index, or the
\* name of the field that holds the index.
RangeIndex == [kind |-> "range", field_name |-> ""]

FieldIndex(field_name) == [kind |-> "field", field_name |-> field_name]

\* The pandas metadata pyarrow writes for a frame with these columns and a
\* range index: one descriptor per column, named after it.
PandasMetadata(fields, version) ==
    [pandas |-> TRUE, pandas_version |-> version, index_columns |-> << RangeIndex >>,
     columns |-> [k \in DOMAIN fields |->
                    Descriptor(<< fields[k].name >>, fields[k].name,
                               fields[k].type, fields[k].type, << >>)]]

\* The same with every column described as a categorical.
CategoricalMetadata(fields, version) ==
    [PandasMetadata(fields, version) EXCEPT
        !.columns = [k \in DOMAIN fields |->
                       [@[k] EXCEPT !.pandas_type = "categorical",
                                    !.metadata = << "num_categories" >>]]]

\* The layouts that are also drawn with the descriptors of a categorical.
CategoricalLayouts == { << F("a", "int64") >> }

MetadataChoices(fields) ==
    {NoPandas}
        \cup { PandasMetadata(fields, v) : v \in WrittenVersions }
        \cup { CategoricalMetadata(fields, v) :
                 v \in IF fields \in CategoricalLayouts THEN WrittenVersions ELSE {} }

OriginOf(k) == { << "partition", k >> }

(***************************************************************************)
(* SchemaWrapper and the pyarrow.Schema operations it forwards to.         *)
(***************************************************************************)
SchemaWrapper(fields, metadata, origin) ==
    [fields |-> fields, metadata |-> metadata, origin |-> origin]

with_origin(schema, origin) == [schema EXCEPT !.origin = origin]

\* pyarrow.Schema.get_field_index: the position of the field, -1 if absent.
get_field_index(schema, name) ==
    IF \E k \in DOMAIN schema.fields : schema.fields[k].name = name
    THEN CHOOSE k \in DOMAIN schema.fields : schema.fields[k].name = name
    ELSE -1

\* pyarrow.Schema.field_by_name: the field, None if absent.
field_by_name(schema, name) ==
    IF get_field_index(schema, name) = -1
    THEN << >>
    ELSE << schema.fields[get_field_index(schema, name)] >>

RemoveAt(seq, k) == [n \in 1..(Len(seq) - 1) |-> IF n < k THEN seq[n] ELSE seq[n + 1]]

remove(schema, k) == [schema EXCEPT !.fields = RemoveAt(@, k)]

set(schema, k, field) == [schema EXCEPT !.fields[k] = field]

NoMetadataLabel(label) == Append(label, "__no_metadata")

remove_metadata(schema) ==
    SchemaWrapper(schema.fields, NoPandas, { NoMetadataLabel(s) : s \in schema.origin })

equals(self, other, check_metadata) ==
    /\ self.fields = other.fields
    /\ check_metadata => self.metadata = other.metadata

SchemaNe(self, other) == ~ equals(self, other, FALSE)

\* The loop of _schema_compat over index_columns (pyarrow >= 0.13): the
\* entry of a range index is passed over, the field of any other index is
\* removed from the schema if it is there.  The metadata stays as it is.
RECURSIVE IndexLoop(_, _, _)
IndexLoop(schema, index_cols, ix) ==
    IF ix > Len(index_cols) THEN schema
    ELSE IF index_cols[ix].kind = "range" THEN IndexLoop(schema, index_cols, ix + 1)
    ELSE LET index_level_ix == get_field_index(schema, index_cols[ix].field_name)
         IN  IF index_level_ix >= 0
             THEN IndexLoop(remove(schema, index_level_ix), index_cols, ix + 1)
             ELSE IndexLoop(schema, index_cols, ix + 1)

_schema_compat(schema) ==
    IF schema.metadata.pandas
    THEN IndexLoop(schema, schema.metadata.index_columns, 1)
    ELSE schema

(***************************************************************************)
(* _determine_schemas_to_compare, one iteration of its loop at a time.     *)
(* The loop state is r = [reference, nulls, pending]: reference is None    *)
(* (<< >>) or << schema >>, nulls is null_cols_in_reference and pending is *)
(* schemas_to_evaluate, a sequence of [schema, null_columns].              *)
(***************************************************************************)
HasPandasKey(schema) == schema.metadata.pandas

_pandas_in_schemas(ss) == \E k \in DOMAIN ss : HasPandasKey(ss[k])

HasPandas(ss, ip) == _pandas_in_schemas(ss) /\ ~ ip

\* CurrentOf without the overwrite of the version tag.
CurrentOf_KeepsVersion(schema, has_pandas) == schema

\* The schema the loop works on: with pandas metadata in play the version
\* tag is overwritten with the version of the running library.
CurrentOf(schema, has_pandas) ==
    IF has_pandas
    THEN SchemaWrapper(schema.fields,
                       [schema.metadata EXCEPT !.pandas_version = PandasVersion],
                       schema.origin)
    ELSE schema

NullColumns(schema) ==
    { schema.fields[k].name : k \in { n \in DOMAIN schema.fields : schema.fields[n].type = NullType } }

Entry(schema, nulls) == [schema |-> schema, null_columns |-> nulls]

\* Which branch of the loop body the schema takes.
Branch(r, schema, has_pandas) ==
    IF has_pandas /\ ~ HasPandasKey(schema) THEN "mixed"
    ELSE IF r.reference = << >> THEN "trivial"
    ELSE IF r.nulls \subseteq NullColumns(CurrentOf(schema, has_pandas)) THEN "subset"
    ELSE IF NullColumns(CurrentOf(schema, has_pandas)) \subseteq r.nulls THEN "superset"
    ELSE "heal"

\* _swap_fields_by_name that leaves the null field of the reference in place.
_swap_fields_by_name_Unchanged(ref, current, field_name) == ref

_swap_fields_by_name(ref, current, field_name) ==
    set(ref, get_field_index(ref, field_name), field_by_name(current, field_name)[1])

\* The healing loop over null_cols_in_reference - null_columns.  A column
\* that current does not have makes field_by_name return None, and
\* reference.set(index, None) does not return a schema.
RECURSIVE HealLoop(_, _, _, _)
HealLoop(ref, current, nulls, cols) ==
    IF cols = {}
    THEN [failed |-> FALSE, reference |-> ref, nulls |-> nulls]
    ELSE LET col == CHOOSE c \in cols : TRUE
         IN  IF field_by_name(current, col) = << >>
             THEN [failed |-> TRUE, reference |-> ref, nulls |-> nulls]
             ELSE HealLoop(_swap_fields_by_name(ref, current, col), current,
                           nulls \ {col}, cols \ {col})

\* The schema with fewer null columns becomes the reference.
SwapNeeded(r, null_columns) == Cardinality(null_columns) < Cardinality(r.nulls)

HealStep(r, current, null_columns) ==
    LET swap  == SwapNeeded(r, null_columns)
        ref0  == IF swap THEN current ELSE r.reference[1]
        cur0  == IF swap THEN r.reference[1] ELSE current
        nref0 == IF swap THEN null_columns ELSE r.nulls
        ncur0 == IF swap THEN r.nulls ELSE null_columns
        h     == HealLoop(ref0, cur0, nref0, nref0 \ ncur0)
    IN  [status    |-> IF h.failed THEN "HealFailure" ELSE "ok",
         healed    |-> h,
         reference |-> << h.reference >>,
         nulls     |-> h.nulls,
         pending   |-> IF h.failed THEN r.pending
                       ELSE Append(r.pending, Entry(cur0, ncur0))]

TrivialStep(r, current, null_columns) ==
    [status |-> "ok", reference |-> << current >>, nulls |-> null_columns,
     pending |-> r.pending]

\* The subset branch without the append to schemas_to_evaluate.
SubsetStep_NotAppended(r, current, null_columns) ==
    [status |-> "ok", reference |-> r.reference, nulls |-> r.nulls,
     pending |-> r.pending]

SubsetStep(r, current, null_columns) ==
    [status |-> "ok", reference |-> r.reference, nulls |-> r.nulls,
     pending |-> Append(r.pending, Entry(current, null_columns))]

\* The superset branch that appends the current schema and keeps the reference.
SupersetStep_KeepsReference(r, current, null_columns) ==
    [status |-> "ok", reference |-> r.reference, nulls |-> r.nulls,
     pending |-> Append(r.pending, Entry(current, null_columns))]

SupersetStep(r, current, null_columns) ==
    [status |-> "ok", reference |-> << current >>, nulls |-> null_columns,
     pending |-> Append(r.pending, Entry(r.reference[1], r.nulls))]

MixedStep(r) ==
    [status |-> "MixedDescriptorError", reference |-> r.reference, nulls |-> r.nulls,
     pending |-> r.pending]

ResolverStep(r, schema, has_pandas) ==
    LET b == Branch(r, schema, has_pandas)
        current == CurrentOf(schema, has_pandas)
        null_columns == NullColumns(current)
    IN  CASE b = "mixed"    -> MixedStep(r)
          [] b = "trivial"  -> TrivialStep(r, current, null_columns)
          [] b = "subset"   -> SubsetStep(r, current, null_columns)
          [] b = "superset" -> SupersetStep(r, current, null_columns)
          [] b = "heal"     -> HealStep(r, current, null_columns)

ResolverInit == [status |-> "ok", reference |-> << >>, nulls |-> {}, pending |-> << >>]

\* The whole loop over ss[k..]; it stops at the first iteration that raises.
RECURSIVE ResolveFrom(_, _, _, _)
ResolveFrom(r, ss, k, has_pandas) ==
    IF r.status # "ok" \/ k > Len(ss)
    THEN r
    ELSE ResolveFrom(ResolverStep(r, ss[k], has_pandas), ss, k + 1, has_pandas)

_determine_schemas_to_compare(ss, ip) == ResolveFrom(ResolverInit, ss, 1, HasPandas(ss, ip))

(***************************************************************************)
(* validate_compatible: the comparison of each pending pair.               *)
(***************************************************************************)
\* The loop of _strip_columns_from_schema over field_names: the first name
\* the schema stripped so far does not have ends it with the schema as it
\* was passed in.
RECURSIVE StripLoop(_, _, _)
StripLoop(schema, stripped_schema, field_names) ==
    IF field_names = {}
    THEN stripped_schema
    ELSE LET name == CHOOSE n \in field_names : TRUE
             ix   == get_field_index(stripped_schema, name)
         IN  IF ix >= 0
             THEN StripLoop(schema, remove(stripped_schema, ix), field_names \ {name})
             ELSE schema

_strip_columns_from_schema(schema, field_names) == StripLoop(schema, schema, field_names)

StripRefused(schema, field_names) ==
    \E name \in field_names : get_field_index(schema, name) = -1

reference_to_compare(ref, null_columns) ==
    remove_metadata(_strip_columns_from_schema(ref, null_columns))

current_to_compare(current, null_columns) ==
    remove_metadata(_strip_columns_from_schema(current, null_columns))

PairDiffers(ref, entry) ==
    SchemaNe(reference_to_compare(ref, entry.null_columns),
             current_to_compare(entry.schema, entry.null_columns))

RECURSIVE UnionOrigins(_, _, _)
UnionOrigins(pending, k, acc) ==
    IF k > Len(pending) THEN acc
    ELSE UnionOrigins(pending, k + 1, acc \cup pending[k].schema.origin)

NoResult == [kind |-> "none", value |-> << >>, origin_schema |-> {}, origin_reference |-> {}]

Raised(kind, origin_schema, origin_reference) ==
    [kind |-> kind, value |-> << >>, origin_schema |-> origin_schema,
     origin_reference |-> origin_reference]

Returned(value) ==
    [kind |-> "ok", value |-> value, origin_schema |-> {}, origin_reference |-> {}]

IncompatibleResult(ref, entry) ==
    Raised("IncompatibleSchemaError", entry.schema.origin, ref.origin)

\* The return without the union of the candidates' origins.
ReturnValue_ReferenceOrigin(ref, pending) ==
    IF ref = << >> THEN Returned(<< >>) ELSE Returned(ref)

\* The return without the test for a reference of None.
ReturnValue_NoNoneTest(ref, pending) ==
    IF ref = << >>
    THEN Raised("AttributeError", {}, {})
    ELSE Returned(<< with_origin(ref[1], UnionOrigins(pending, 1, ref[1].origin)) >>)

ReturnValue(ref, pending) ==
    IF ref = << >>
    THEN Returned(<< >>)
    ELSE Returned(<< with_origin(ref[1], UnionOrigins(pending, 1, ref[1].origin)) >>)

RECURSIVE CompareFrom(_, _, _)
CompareFrom(ref, pending, k) ==
    IF k > Len(pending) THEN ReturnValue(ref, pending)
    ELSE IF PairDiffers(ref[1], pending[k]) THEN IncompatibleResult(ref[1], pending[k])
    ELSE CompareFrom(ref, pending, k + 1)

\* validate_compatible as a function of its arguments.  A failure of the
\* healing step is reported as "HealFailure".
validate_compatible(ss, ip) ==
    LET r == _determine_schemas_to_compare(ss, ip)
    IN  IF r.status # "ok"
        THEN Raised(r.status, {}, {})
        ELSE CompareFrom(r.reference, r.pending, 1)

(***************************************************************************)
(* validate_shared_columns, one schema of its loop at a time.  seen is the *)
(* dictionary of the loop, a set of [col, field].                          *)
(***************************************************************************)
\* The "columns" entries with a name, by field_name.
RECURSIVE NamedColumns(_, _)
NamedColumns(columns, k) ==
    IF k > Len(columns) THEN << >>
    ELSE IF columns[k].name = << >> THEN NamedColumns(columns, k + 1)
    ELSE << columns[k].field_name >> \o NamedColumns(columns, k + 1)

SharedColumnsOf(schema, has_pandas) ==
    IF has_pandas
    THEN NamedColumns(schema.metadata.columns, 1)
    ELSE [k \in DOMAIN schema.fields |-> schema.fields[k].name]

\* schema[field_idx]: a negative index counts from the end.
FieldAt(schema, field_idx) ==
    IF field_idx = -1 THEN schema.fields[Len(schema.fields)] ELSE schema.fields[field_idx]

Seen(seen_, col) == \E e \in seen_ : e.col = col

SeenField(seen_, col) == (CHOOSE e \in seen_ : e.col = col).field

\* The loop over the columns of one schema: the first column whose field
\* differs from the one recorded ends it.
RECURSIVE SharedLoop(_, _, _, _)
SharedLoop(schema, columns, k, seen_) ==
    IF k > Len(columns)
    THEN [conflict |-> FALSE, seen |-> seen_]
    ELSE LET col   == columns[k]
             field == FieldAt(schema, get_field_index(schema, col))
         IN  IF Seen(seen_, col)
             THEN IF SeenField(seen_, col) # field
                  THEN [conflict |-> TRUE, seen |-> seen_]
                  ELSE SharedLoop(schema, columns, k + 1, seen_)
             ELSE SharedLoop(schema, columns, k + 1,
                             seen_ \cup {[col |-> col, field |-> field]})

SharedStep(seen_, schema, has_pandas) ==
    SharedLoop(schema, SharedColumnsOf(schema, has_pandas), 1, seen_)

\* The loop over ss[k..]; the outcome of the call.
RECURSIVE SharedFrom(_, _, _, _)
SharedFrom(ss, k, seen_, has_pandas) ==
    IF k > Len(ss) THEN "ok"
    ELSE IF has_pandas /\ ~ HasPandasKey(ss[k]) THEN "MixedDescriptorError"
    ELSE IF SharedStep(seen_, ss[k], has_pandas).conflict THEN "IncompatibleColumnError"
    ELSE SharedFrom(ss, k + 1, SharedStep(seen_, ss[k], has_pandas).seen, has_pandas)

validate_shared_columns(ss, ip) == SharedFrom(ss, 1, {}, HasPandas(ss, ip))

(***************************************************************************)
(* The objects of a call.  schemas, reference and schemas_to_evaluate hold *)
(* values; heap says which objects hold them.  heap.objects[k] is the      *)
(* input object schemas[k] as it is now and heap.reference_object the      *)
(* input object the name reference is bound to, 0 for an object built in   *)
(* the call.  heap.sets[n] is the content of the set object n: 0 is the    *)
(* set() the resolver starts with and k the set built from the fields of   *)
(* the k-th schema.  heap.reference_set is the set object                  *)
(* null_cols_in_reference is bound to and heap.pending_sets[n] the one     *)
(* recorded with schemas_to_evaluate[n].                                   *)
(***************************************************************************)
HeapInit(ss) ==
    [objects |-> ss, reference_object |-> 0,
     sets |-> [n \in 0..Len(ss) |-> {}], reference_set |-> 0, pending_sets |-> << >>]

\* The object current is bound to: with pandas metadata in play a new
\* SchemaWrapper, otherwise the input itself.
CurrentObject(k, has_pandas) == IF has_pandas THEN 0 ELSE k

\* null_columns = {field.name for ...}: a new set object.
NewSet(h, k, null_columns) == [h EXCEPT !.sets[k] = null_columns]

\* SchemaWrapper.set that replaces the field in the receiver.
ObjectsAfterSet_InPlace(objects, receiver, value) ==
    IF receiver \in DOMAIN objects THEN [objects EXCEPT ![receiver] = value] ELSE objects

\* SchemaWrapper.set wraps the pyarrow schema with the replaced field in a
\* new SchemaWrapper: the receiver stays as it is.
ObjectsAfterSet(objects, receiver, value) == objects

TrivialHeap(h, k, null_columns, has_pandas) ==
    [NewSet(h, k, null_columns) EXCEPT
        !.reference_object = CurrentObject(k, has_pandas), !.reference_set = k]

SubsetHeap(h, k, null_columns, has_pandas) ==
    [NewSet(h, k, null_columns) EXCEPT !.pending_sets = Append(@, k)]

SupersetHeap(h, k, null_columns, has_pandas) ==
    [NewSet(h, k, null_columns) EXCEPT
        !.pending_sets = Append(@, h.reference_set),
        !.reference_object = CurrentObject(k, has_pandas), !.reference_set = k]

\* The healing branch: the names are swapped, every swap of a field calls
\* set on the reference and rebinds the name to what it returns, and the
\* healed columns are removed from the set object of the reference; healed
\* is the outcome of HealLoop.
HealHeap(h, k, null_columns, has_pandas, swap, healed) ==
    LET h0       == NewSet(h, k, null_columns)
        ref_set  == IF swap THEN k ELSE h.reference_set
        cur_set  == IF swap THEN h.reference_set ELSE k
        receiver == IF swap THEN CurrentObject(k, has_pandas) ELSE h.reference_object
        removed  == h0.sets[ref_set] \ healed.nulls
    IN  [objects |-> IF removed = {} THEN h0.objects
                     ELSE ObjectsAfterSet(h0.objects, receiver, healed.reference),
         reference_object |-> IF removed = {} THEN receiver ELSE 0,
         sets |-> [h0.sets EXCEPT ![ref_set] = @ \ removed],
         reference_set |-> ref_set,
         pending_sets |-> IF healed.failed THEN h0.pending_sets
                          ELSE Append(h0.pending_sets, cur_set)]

(***************************************************************************)
(* A call op(schemas, ignore_pandas) as a state machine.                   *)
(* validate_compatible: pc = "resolve" in the loop of                      *)
(* _determine_schemas_to_compare, about to process schemas[i], then        *)
(* pc = "compare" in its own loop, about to compare                        *)
(* schemas_to_evaluate[j].  validate_shared_columns: pc = "shared", about  *)
(* to process schemas[i].  pc = "done": the call has returned or raised,   *)
(* see result.                                                             *)
(***************************************************************************)
\* What reference.set(index, None) can end in, depending on the pyarrow
\* build: an exception of the binding or the abort of the interpreter.
HealFailureKinds == {"AttributeError", "Abort"}

Operations == {"validate_compatible", "validate_shared_columns"}

InputLists(n) ==
    { [k \in 1..n |-> SchemaWrapper(c[k][1], c[k][2], OriginOf(k))] :
        c \in [1..n -> UNION { {fields} \X MetadataChoices(fields) : fields \in FieldLists }] }

Init ==
    /\ op \in Operations
    /\ \E n \in 0..MaxSchemas : schemas \in InputLists(n)
    /\ ignore_pandas \in BOOLEAN
    /\ pc = IF op = "validate_compatible" THEN "resolve" ELSE "shared"
    /\ i = 1
    /\ reference = << >>
    /\ null_cols_in_reference = {}
    /\ schemas_to_evaluate = << >>
    /\ j = 0
    /\ seen = {}
    /\ result = NoResult
    /\ heap = HeapInit(schemas)
    /\ args = << >> /\ locals = << >> /\ store = << >>

has_pandas == HasPandas(schemas, ignore_pandas)

R == [status |-> "ok", reference |-> reference, nulls |-> null_cols_in_reference,
      pending |-> schemas_to_evaluate]

InBranch(b) ==
    /\ pc = "resolve"
    /\ i <= Len(schemas)
    /\ Branch(R, schemas[i], has_pandas) = b

current == CurrentOf(schemas[i], has_pandas)

null_columns == NullColumns(current)

Continue(r, h) ==
    /\ reference' = r.reference
    /\ null_cols_in_reference' = r.nulls
    /\ schemas_to_evaluate' = r.pending
    /\ heap' = h
    /\ i' = i + 1
    /\ UNCHANGED << op, schemas, ignore_pandas, pc, j, seen, result, frame >>

Raise(r) ==
    /\ pc' = "done"
    /\ result' = r
    /\ UNCHANGED << op, schemas, ignore_pandas, i, reference, null_cols_in_reference,
                    schemas_to_evaluate, j, seen, frame >>

HealedHeap ==
    HealHeap(heap, i, null_columns, has_pandas, SwapNeeded(R, null_columns),
             HealStep(R, current, null_columns).healed)

RaiseMixed ==
    /\ InBranch("mixed")
    /\ Raise(Raised(MixedStep(R).status, {}, {}))
    /\ UNCHANGED heap

Trivial ==
    /\ InBranch("trivial")
    /\ Continue(TrivialStep(R, current, null_columns),
                TrivialHeap(heap, i, null_columns, has_pandas))

Subset ==
    /\ InBranch("subset")
    /\ Continue(SubsetStep(R, current, null_columns),
                SubsetHeap(heap, i, null_columns, has_pandas))

Superset ==
    /\ InBranch("superset")
    /\ Continue(SupersetStep(R, current, null_columns),
                SupersetHeap(heap, i, null_columns, has_pandas))

Heal ==
    /\ InBranch("heal")
    /\ HealStep(R, current, null_columns).status = "ok"
    /\ Continue(HealStep(R, current, null_columns), HealedHeap)

HealFails ==
    /\ InBranch("heal")
    /\ HealStep(R, current, null_columns).status = "HealFailure"
    /\ \E kind \in HealFailureKinds : Raise(Raised(kind, {}, {}))
    /\ heap' = HealedHeap

ResolverReturn ==
    /\ pc = "resolve"
    /\ i > Len(schemas)
    /\ pc' = "compare"
    /\ j' = 1
    /\ UNCHANGED << op, schemas, ignore_pandas, i, reference, null_cols_in_reference,
                    schemas_to_evaluate, seen, result, heap, frame >>

CompareEqual ==
    /\ pc = "compare"
    /\ j <= Len(schemas_to_evaluate)
    /\ ~ PairDiffers(reference[1], schemas_to_evaluate[j])
    /\ j' = j + 1
    /\ UNCHANGED << op, schemas, ignore_pandas, pc, i, reference, null_cols_in_reference,
                    schemas_to_evaluate, seen, result, heap, frame >>

CompareDiffers ==
    /\ pc = "compare"
    /\ j <= Len(schemas_to_evaluate)
    /\ PairDiffers(reference[1], schemas_to_evaluate[j])
    /\ Raise(IncompatibleResult(reference[1], schemas_to_evaluate[j]))
    /\ UNCHANGED heap

Return ==
    /\ pc = "compare"
    /\ j > Len(schemas_to_evaluate)
    /\ Raise(ReturnValue(reference, schemas_to_evaluate))
    /\ UNCHANGED heap

SharedMixed ==
    /\ pc = "shared"
    /\ i <= Len(schemas)
    /\ has_pandas /\ ~ HasPandasKey(schemas[i])
    /\ Raise(Raised("MixedDescriptorError", {}, {}))
    /\ UNCHANGED heap

SharedSchema ==
    /\ pc = "shared"
    /\ i <= Len(schemas)
    /\ ~ (has_pandas /\ ~ HasPandasKey(schemas[i]))
    /\ ~ SharedStep(seen, schemas[i], has_pandas).conflict
    /\ seen' = SharedStep(seen, schemas[i], has_pandas).seen
    /\ i' = i + 1
    /\ UNCHANGED << op, schemas, ignore_pandas, pc, reference, null_cols_in_reference,
                    schemas_to_evaluate, j, result, heap, frame >>

SharedConflict ==
    /\ pc = "shared"
    /\ i <= Len(schemas)
    /\ ~ (has_pandas /\ ~ HasPandasKey(schemas[i]))
    /\ SharedStep(seen, schemas[i], has_pandas).conflict
    /\ Raise(Raised("IncompatibleColumnError", {}, {}))
    /\ UNCHANGED heap

SharedReturn ==
    /\ pc = "shared"
    /\ i > Len(schemas)
    /\ Raise(Returned(<< >>))
    /\ UNCHANGED heap

Next ==
    \/ RaiseMixed
    \/ Trivial
    \/ Subset
    \/ Superset
    \/ Heal
    \/ HealFails
    \/ ResolverReturn
    \/ CompareEqual
    \/ CompareDiffers
    \/ Return
    \/ SharedMixed
    \/ SharedSchema
    \/ SharedConflict
    \/ SharedReturn

Spec == Init /\ [][Next]_vars

(***************************************************************************)
(* validate_shared_columns on the schemas of tables: SchemaWrapper values  *)
(* built from the schema pyarrow derives from a frame, with a range index, *)
(* a named index or an unnamed index.                                      *)
(***************************************************************************)
\* The payload columns of the tables.
TableLayouts ==
    { << F("x", "int64") >>,
      << F("x", "string") >>,
      << F("x", "int64"), F("y", "string") >>,
      << F("y", "string"), F("x", "int64") >> }

\* The layouts drawn with an index named idx, and with an unnamed index.
NamedIndexLayouts == TableLayouts \ { << F("x", "string") >> }

UnnamedIndexLayouts == { << F("x", "int64") >> }

\* The schema pyarrow derives from a frame with an index that is not a
\* range: the field of the index follows the columns and has a descriptor,
\* whose name is the name of the index (None for an unnamed one).
IndexedSchema(fields, name, field_name, origin) ==
    LET m == PandasMetadata(fields, PandasVersion)
    IN  [fields |-> Append(fields, F(field_name, "int64")),
         metadata |-> [m EXCEPT
                          !.index_columns = << FieldIndex(field_name) >>,
                          !.columns = Append(@, Descriptor(name, field_name,
                                                           "int64", "int64", << >>))],
         origin |-> origin]

\* SchemaWrapper(schema, origin): the constructor runs _schema_compat.
Tables(origin) ==
    { _schema_compat(SchemaWrapper(fields, metadata, origin)) :
         fields \in TableLayouts, metadata \in {NoPandas} }
    \cup { _schema_compat(SchemaWrapper(fields, PandasMetadata(fields, PandasVersion), origin)) :
             fields \in TableLayouts }
    \cup { _schema_compat(IndexedSchema(fields, << "idx" >>, "idx", origin)) :
             fields \in NamedIndexLayouts }
    \cup { _schema_compat(IndexedSchema(fields, << >>, "__index_level_0__", origin)) :
             fields \in UnnamedIndexLayouts }

TableLists(n) ==
    { ss \in [1..n -> UNION { Tables(OriginOf(k)) : k \in 1..n }] :
         \A k \in 1..n : ss[k].origin = OriginOf(k) }

InitShared ==
    /\ op = "validate_shared_columns"
    /\ \E n \in 0..MaxSchemas : schemas \in TableLists(n)
    /\ ignore_pandas \in BOOLEAN
    /\ pc = "shared"
    /\ i = 1
    /\ reference = << >>
    /\ null_cols_in_reference = {}
    /\ schemas_to_evaluate = << >>
    /\ j = 0
    /\ seen = {}
    /\ result = NoResult
    /\ heap = HeapInit(schemas)
    /\ args = << >> /\ locals = << >> /\ store = << >>

NextShared ==
    \/ SharedMixed
    \/ SharedSchema
    \/ SharedConflict
    \/ SharedReturn

SpecShared == InitShared /\ [][NextShared]_vars

Done == pc = "done"

Compatible == op = "validate_compatible"

ResultKinds ==
    {"none", "ok", "MixedDescriptorError", "IncompatibleSchemaError",
     "IncompatibleColumnError"} \cup HealFailureKinds

TypeOK ==
    /\ op \in Operations
    /\ pc \in {"resolve", "compare", "shared", "done"}
    /\ ignore_pandas \in BOOLEAN
    /\ Len(schemas) <= MaxSchemas
    /\ Len(reference) <= 1
    /\ result.kind \in ResultKinds
    /\ Compatible => /\ null_cols_in_reference = heap.sets[heap.reference_set]
                     /\ Len(heap.pending_sets) = Len(schemas_to_evaluate)
                     /\ \A n \in DOMAIN schemas_to_evaluate :
                            schemas_to_evaluate[n].null_columns = heap.sets[heap.pending_sets[n]]
                     /\ heap.reference_object # 0 =>
                            reference = << heap.objects[heap.reference_object] >>

(***************************************************************************)
(* normalize_type.  A pyarrow type is the sequence of its constructors     *)
(* from the outside in, << "list", "dictionary", "int8" >> for a list of   *)
(* dictionaries with int8 values (the index type of a dictionary plays no  *)
(* part).  A type tag is a Python string, modelled as the sequence of its  *)
(* characters so that it can be sliced and formatted; t_pd, t_np and       *)
(* metadata may be None.                                                   *)
(***************************************************************************)
None == << >>

\* The characters of the string literals of the code and of the tags
\* pyarrow writes.
Str(s) ==
    CASE s = "int8" -> << "i", "n", "t", "8" >>
      [] s = "int64" -> << "i", "n", "t", "6", "4" >>
      [] s = "uint8" -> << "u", "i", "n", "t", "8" >>
      [] s = "uint64" -> << "u", "i", "n", "t", "6", "4" >>
      [] s = "float32" -> << "f", "l", "o", "a", "t", "3", "2" >>
      [] s = "float64" -> << "f", "l", "o", "a", "t", "6", "4" >>
      [] s = "unicode" -> << "u", "n", "i", "c", "o", "d", "e" >>
      [] s = "bool" -> << "b", "o", "o", "l" >>
      [] s = "object" -> << "o", "b", "j", "e", "c", "t" >>
      [] s = "categorical" -> << "c", "a", "t", "e", "g", "o", "r", "i", "c", "a", "l" >>
      [] s = "None" -> << "N", "o", "n", "e" >>
      [] s = "list[" -> << "l", "i", "s", "t", "[" >>
      [] s = "]" -> << "]" >>
      [] s = "int16" -> << "i", "n", "t", "1", "6" >>

SignedIntegers == {"int8", "int16", "int32", "int64"}

UnsignedIntegers == {"uint8", "uint16", "uint32", "uint64"}

Floats == {"float16", "float32", "float64"}

is_signed_integer(t_pa) == t_pa[1] \in SignedIntegers

is_unsigned_integer(t_pa) == t_pa[1] \in UnsignedIntegers

is_floating(t_pa) == t_pa[1] \in Floats

is_list(t_pa) == t_pa[1] = "list"

is_dictionary(t_pa) == t_pa[1] = "dictionary"

value_type(t_pa) == Tail(t_pa)

list_(t_pa) == << "list" >> \o t_pa

\* t_pd[len("list["):-1]
ListSlice(t_pd) == SubSeq(t_pd, Len(Str("list[")) + 1, Len(t_pd) - 1)

\* "list[{}]".format(t_pd2)
ListFormat(t_pd2) ==
    Str("list[") \o (IF t_pd2 = None THEN Str("None") ELSE t_pd2[1]) \o Str("]")

TypeTuple(t_pa, t_pd, t_np, metadata) ==
    [raised |-> FALSE, t_pa |-> t_pa, t_pd |-> t_pd, t_np |-> t_np, metadata |-> metadata]

\* Slicing None raises TypeError.
TypeErrorRaised ==
    [raised |-> TRUE, t_pa |-> << >>, t_pd |-> None, t_np |-> None, metadata |-> None]

Int64Tuple == TypeTuple(<< "int64" >>, << Str("int64") >>, << Str("int64") >>, None)

UInt64Tuple == TypeTuple(<< "uint64" >>, << Str("uint64") >>, << Str("uint64") >>, None)

Float64Tuple == TypeTuple(<< "float64" >>, << Str("float64") >>, << Str("float64") >>, None)

\* What the list branch returns for the tuple of its value type.
ListTuple(inner) ==
    TypeTuple(list_(inner.t_pa), << ListFormat(inner.t_pd) >>, << Str("object") >>, None)

RECURSIVE normalize_type(_, _, _, _)
normalize_type(t_pa, t_pd, t_np, metadata) ==
    IF is_signed_integer(t_pa) THEN Int64Tuple
    ELSE IF is_unsigned_integer(t_pa) THEN UInt64Tuple
    ELSE IF is_floating(t_pa) THEN Float64Tuple
    ELSE IF is_list(t_pa)
    THEN IF t_pd = None THEN TypeErrorRaised
         ELSE LET inner == normalize_type(value_type(t_pa), << ListSlice(t_pd[1]) >>, None, None)
              IN  IF inner.raised THEN inner ELSE ListTuple(inner)
    ELSE IF is_dictionary(t_pa) THEN normalize_type(value_type(t_pa), t_np, t_np, None)
    ELSE TypeTuple(t_pa, t_pd, t_np, metadata)

(***************************************************************************)
(* A call normalize_type(t_pa, t_pd, t_np, metadata), one invocation of    *)
(* the recursion per step.  locals.call holds the arguments of the         *)
(* invocation that runs, locals.lists counts the invocations of the list   *)
(* branch that wait for their recursive call, locals.ret is the value      *)
(* being returned.  pc = "call": an invocation starts; pc = "return": an   *)
(* invocation has returned to its caller.                                  *)
(***************************************************************************)
MaxDepth == 3

BaseTypes == {"int8", "int64", "uint8", "uint64", "float32", "float64", "string", "bool"}

RECURSIVE Types(_)
Types(depth) ==
    IF depth = 0 THEN { << b >> : b \in BaseTypes }
    ELSE Types(depth - 1)
            \cup { << c >> \o t : c \in {"list", "dictionary"},
                                  t \in { u \in Types(depth - 1) : Len(u) = depth } }

\* The pandas_type pyarrow writes for a column of the type.
RECURSIVE PandasTag(_)
PandasTag(t_pa) ==
    IF is_list(t_pa) THEN Str("list[") \o PandasTag(value_type(t_pa)) \o Str("]")
    ELSE IF is_dictionary(t_pa) THEN Str("categorical")
    ELSE IF t_pa[1] = "string" THEN Str("unicode")
    ELSE Str(t_pa[1])

InitType ==
    /\ op = "normalize_type"
    /\ \E t_pa \in Types(MaxDepth) :
       \E t_pd \in {PandasTag(t_pa), Str("object")} :
       \E t_np \in {Str("object"), Str("int8")} :
       \E metadata \in {None, << "num_categories" >>} :
          args = [t_pa |-> t_pa, t_pd |-> << t_pd >>, t_np |-> << t_np >>,
                  metadata |-> metadata]
    /\ locals = [call |-> args, lists |-> 0, ret |-> None]
    /\ pc = "call"
    /\ result = NoResult
    /\ store = << >>
    /\ schemas = << >> /\ ignore_pandas = FALSE /\ i = 0 /\ reference = << >>
    /\ null_cols_in_reference = {} /\ schemas_to_evaluate = << >> /\ j = 0
    /\ seen = {} /\ heap = HeapInit(<< >>)

ReturnTuple(t) ==
    /\ pc' = "return"
    /\ locals' = [locals EXCEPT !.ret = << t >>]
    /\ UNCHANGED << op, args, result, store, validation >>

Recurse(t_pa, t_pd, t_np, metadata, lists) ==
    /\ locals' = [locals EXCEPT
                     !.call = [t_pa |-> t_pa, t_pd |-> t_pd, t_np |-> t_np,
                               metadata |-> metadata],
                     !.lists = lists]
    /\ UNCHANGED << op, pc, args, result, store, validation >>

SignedInteger ==
    /\ pc = "call"
    /\ is_signed_integer(locals.call.t_pa)
    /\ ReturnTuple(Int64Tuple)

UnsignedInteger ==
    /\ pc = "call"
    /\ ~ is_signed_integer(locals.call.t_pa)
    /\ is_unsigned_integer(locals.call.t_pa)
    /\ ReturnTuple(UInt64Tuple)

Floating ==
    /\ pc = "call"
    /\ ~ is_signed_integer(locals.call.t_pa) /\ ~ is_unsigned_integer(locals.call.t_pa)
    /\ is_floating(locals.call.t_pa)
    /\ ReturnTuple(Float64Tuple)

ListValue ==
    /\ pc = "call"
    /\ is_list(locals.call.t_pa)
    /\ locals.call.t_pd # None
    /\ Recurse(value_type(locals.call.t_pa), << ListSlice(locals.call.t_pd[1]) >>,
               None, None, locals.lists + 1)

ListTagNone ==
    /\ pc = "call"
    /\ is_list(locals.call.t_pa)
    /\ locals.call.t_pd = None
    /\ pc' = "done"
    /\ result' = Raised("TypeError", {}, {})
    /\ UNCHANGED << op, args, locals, store, validation >>

DictionaryValue ==
    /\ pc = "call"
    /\ is_dictionary(locals.call.t_pa)
    /\ Recurse(value_type(locals.call.t_pa), locals.call.t_np, locals.call.t_np,
               None, locals.lists)

OtherType ==
    /\ pc = "call"
    /\ ~ is_signed_integer(locals.call.t_pa) /\ ~ is_unsigned_integer(locals.call.t_pa)
    /\ ~ is_floating(locals.call.t_pa)
    /\ ~ is_list(locals.call.t_pa) /\ ~ is_dictionary(locals.call.t_pa)
    /\ ReturnTuple(TypeTuple(locals.call.t_pa, locals.call.t_pd, locals.call.t_np,
                             locals.call.metadata))

ListReturn ==
    /\ pc = "return"
    /\ locals.lists > 0
    /\ locals' = [locals EXCEPT !.ret = << ListTuple(locals.ret[1]) >>,
                                !.lists = locals.lists - 1]
    /\ UNCHANGED << op, pc, args, result, store, validation >>

ReturnType ==
    /\ pc = "return"
    /\ locals.lists = 0
    /\ pc' = "done"
    /\ result' = Returned(locals.ret[1])
    /\ UNCHANGED << op, args, locals, store, validation >>

NextType ==
    \/ SignedInteger
    \/ UnsignedInteger
    \/ Floating
    \/ ListValue
    \/ ListTagNone
    \/ DictionaryValue
    \/ OtherType
    \/ ListReturn
    \/ ReturnType

SpecType == InitType /\ [][NextType]_vars

(***************************************************************************)
(* normalize_column_order.  cols_partition is a dictionary by name, a set  *)
(* of [name, cmd, field] with one element per name; cols_payload is a list *)
(* of [name, cmd, field] and cols_misc a list of [cmd, field].  A field is *)
(* None for a descriptor whose field the schema does not have.             *)
(***************************************************************************)
\* The code points of the column names of the model: Python compares
\* strings by code point.
CodePoints(name) ==
    CASE name = "B" -> << 66 >>
      [] name = "a" -> << 97 >>
      [] name = "b" -> << 98 >>
      [] name = "c" -> << 99 >>
      [] name = "d" -> << 100 >>
      [] name = "idx" -> << 105, 100, 120 >>
      [] name = "zz" -> << 122, 122 >>

RECURSIVE SeqLess(_, _)
SeqLess(s, t) ==
    IF t = << >> THEN FALSE
    ELSE IF s = << >> THEN TRUE
    ELSE IF Head(s) # Head(t) THEN Head(s) < Head(t)
    ELSE SeqLess(Tail(s), Tail(t))

\* name1 < name2 for two Python strings.
StrLess(name1, name2) == SeqLess(CodePoints(name1), CodePoints(name2))

InList(x, list) == \E k \in DOMAIN list : list[k] = x

\* sorted(cols_payload, key=lambda x: x[0]): a stable sort by name.
RECURSIVE SortByName(_)
SortByName(cols_payload) ==
    IF cols_payload = << >> THEN << >>
    ELSE LET least == CHOOSE k \in DOMAIN cols_payload :
                          /\ \A n \in DOMAIN cols_payload :
                                ~ StrLess(cols_payload[n].name, cols_payload[k].name)
                          /\ \A n \in 1..(k - 1) :
                                StrLess(cols_payload[k].name, cols_payload[n].name)
         IN  << cols_payload[least] >> \o SortByName(RemoveAt(cols_payload, least))

NoColumns == [cols_partition |-> {}, cols_payload |-> << >>, cols_misc |-> << >>]

\* One iteration of the loop over pandas_metadata["columns"].
ClassifyKind(cmd, partition_keys) ==
    IF cmd.name = None THEN "misc"
    ELSE IF InList(cmd.name[1], partition_keys) THEN "partition"
    ELSE "payload"

ClassifyStep(c, schema, cmd, partition_keys) ==
    LET field_idx == get_field_index(schema, cmd.field_name)
        field     == IF field_idx >= 0 THEN << schema.fields[field_idx] >> ELSE None
        kind      == ClassifyKind(cmd, partition_keys)
    IN  CASE kind = "misc" ->
               [c EXCEPT !.cols_misc = Append(@, [cmd |-> cmd, field |-> field])]
          [] kind = "partition" ->
               [c EXCEPT !.cols_partition =
                            { x \in @ : x.name # cmd.name[1] }
                               \cup {[name |-> cmd.name[1], cmd |-> cmd, field |-> field]}]
          [] kind = "payload" ->
               [c EXCEPT !.cols_payload =
                            Append(@, [name |-> cmd.name[1], cmd |-> cmd, field |-> field])]

RECURSIVE ClassifyFrom(_, _, _, _)
ClassifyFrom(c, schema, k, partition_keys) ==
    IF k > Len(schema.metadata.columns) THEN c
    ELSE ClassifyFrom(ClassifyStep(c, schema, schema.metadata.columns[k], partition_keys),
                      schema, k + 1, partition_keys)

\* The loop over partition_keys.
RECURSIVE PartitionPart(_, _, _)
PartitionPart(cols_partition, partition_keys, n) ==
    IF n > Len(partition_keys) THEN << >>
    ELSE (IF \E x \in cols_partition : x.name = partition_keys[n]
          THEN << CHOOSE x \in cols_partition : x.name = partition_keys[n] >>
          ELSE << >>) \o PartitionPart(cols_partition, partition_keys, n + 1)

\* ordered with the unnamed entries in front of the payload.
Ordered_MiscFirst(c, partition_keys) ==
    PartitionPart(c.cols_partition, partition_keys, 1) \o c.cols_misc
        \o SortByName(c.cols_payload)

\* ordered with the payload in the order of the schema.
Ordered_Unsorted(c, partition_keys) ==
    PartitionPart(c.cols_partition, partition_keys, 1) \o c.cols_payload \o c.cols_misc

Ordered(c, partition_keys) ==
    PartitionPart(c.cols_partition, partition_keys, 1) \o SortByName(c.cols_payload)
        \o c.cols_misc

\* [f for _, f in ordered if f is not None]
RECURSIVE FieldsOf(_)
FieldsOf(ordered) ==
    IF ordered = << >> THEN << >>
    ELSE Head(ordered).field \o FieldsOf(Tail(ordered))

OrderedSchema(schema, ordered) ==
    _schema_compat(
        SchemaWrapper(FieldsOf(ordered),
                      [schema.metadata EXCEPT
                          !.columns = [k \in DOMAIN ordered |-> ordered[k].cmd]],
                      schema.origin))

normalize_column_order(schema, partition_keys) ==
    OrderedSchema(schema,
                  Ordered(ClassifyFrom(NoColumns, schema, 1, partition_keys), partition_keys))

(***************************************************************************)
(* make_meta of a DataFrame.  obj is the schema pyarrow derives from the   *)
(* frame; fields is the dictionary from field name to type, a list of      *)
(* fields in the order of insertion.                                       *)
(***************************************************************************)
\* fields[field_name] = t_pa
SetType(fields, field_name, t_pa) ==
    IF \E k \in DOMAIN fields : fields[k].name = field_name
    THEN [k \in DOMAIN fields |->
             IF fields[k].name = field_name THEN F(field_name, t_pa) ELSE fields[k]]
    ELSE Append(fields, F(field_name, t_pa))

\* The descriptor with the tags it came with.
NormalizedEntry_KeepsTags(cmd, t) == cmd

NormalizedEntry(cmd, t) ==
    [cmd EXCEPT !.pandas_type = t.t_pd, !.numpy_type = t.t_np, !.metadata = t.metadata]

\* The tuple normalize_type returns for the k-th descriptor of the schema.
NormalizedTuple(schema, k) ==
    LET cmd   == schema.metadata.columns[k]
        field == FieldAt(schema, get_field_index(schema, cmd.field_name))
    IN  normalize_type(field.type, cmd.pandas_type, cmd.numpy_type, cmd.metadata)

\* One iteration of the loop over pandas_metadata["columns"]; m is
\* [fields, columns].
NormalizeStep(m, schema, k) ==
    IF schema.metadata.columns[k].name = None
    THEN m
    ELSE [fields  |-> SetType(m.fields, schema.metadata.columns[k].field_name,
                              NormalizedTuple(schema, k).t_pa),
          columns |-> [m.columns EXCEPT
                          ![k] = NormalizedEntry(@, NormalizedTuple(schema, k))]]

RECURSIVE NormalizeFrom(_, _, _)
NormalizeFrom(m, schema, k) ==
    IF k > Len(schema.metadata.columns) THEN m
    ELSE NormalizeFrom(NormalizeStep(m, schema, k), schema, k + 1)

\* SchemaWrapper(pa.schema(fields, metadata), origin)
WrappedSchema(m, schema, origin) ==
    _schema_compat(SchemaWrapper(m.fields, [schema.metadata EXCEPT !.columns = m.columns],
                                 origin))

make_meta(obj, origin, partition_keys) ==
    normalize_column_order(
        WrappedSchema(NormalizeFrom([fields |-> obj.fields, columns |-> obj.metadata.columns],
                                    obj, 1),
                      obj, origin),
        partition_keys)

(***************************************************************************)
(* Calls of normalize_column_order(schema, partition_keys) and of          *)
(* make_meta(obj, origin, partition_keys), one loop iteration per step.    *)
(* pc = "normalize": in the loop of make_meta, about to process the i-th   *)
(* descriptor; pc = "classify": in the first loop of                       *)
(* normalize_column_order, about to process the i-th descriptor of         *)
(* locals.schema.                                                          *)
(***************************************************************************)
\* A column of a frame: its label (None for a column labelled None) and its
\* type.
Column(label, t_pa) == [label |-> label, t_pa |-> t_pa]

Frames ==
    { << Column(<< "b" >>, << "float32" >>), Column(<< "a" >>, << "int8" >>) >>,
      << Column(<< "a" >>, << "int8" >>), Column(<< "b" >>, << "float32" >>) >>,
      << Column(<< "c" >>, << "list", "int16" >>), Column(<< "B" >>, << "string" >>),
         Column(<< "a" >>, << "int64" >>) >>,
      << Column(<< "d" >>, << "dictionary", "string" >>), Column(<< "a" >>, << "uint8" >>) >>,
      << Column(None, << "int8" >>), Column(<< "c" >>, << "list", "int16" >>),
         Column(<< "b" >>, << "float32" >>), Column(<< "a" >>, << "int8" >>) >>,
      << Column(<< "a" >>, << "int8" >>) >> }

\* The index of a frame: a range index, an index named idx, an unnamed one.
Indexes == {"range", "named", "unnamed"}

PartitionKeys ==
    { << >>, << "b" >>, << "b", "a" >>, << "a", "b" >>, << "zz", "a" >>, << "idx" >> }

\* The numpy_type and the metadata pyarrow writes for a column of the type.
NumpyTag(t_pa) ==
    IF is_list(t_pa) \/ t_pa[1] = "string" THEN Str("object")
    ELSE IF is_dictionary(t_pa) THEN Str("int8")
    ELSE Str(t_pa[1])

ColumnMetadata(t_pa) == IF is_dictionary(t_pa) THEN << "num_categories" >> ELSE None

ColumnDescriptor(label, field_name, t_pa) ==
    Descriptor(label, field_name, << PandasTag(t_pa) >>, << NumpyTag(t_pa) >>,
               ColumnMetadata(t_pa))

FieldName(label) == IF label = None THEN "None" ELSE label[1]

\* pa.Schema.from_pandas(frame): the fields and descriptors of the columns,
\* followed by those of an index that is not a range.
FrameSchema(columns, index, origin) ==
    LET index_label == IF index = "named" THEN << "idx" >> ELSE None
        index_field == IF index = "named" THEN "idx" ELSE "__index_level_0__"
        fields  == [k \in DOMAIN columns |->
                       F(FieldName(columns[k].label), columns[k].t_pa)]
        entries == [k \in DOMAIN columns |->
                       ColumnDescriptor(columns[k].label, FieldName(columns[k].label),
                                        columns[k].t_pa)]
    IN  [fields |-> IF index = "range" THEN fields
                    ELSE Append(fields, F(index_field, << "int64" >>)),
         metadata |->
            [pandas |-> TRUE, pandas_version |-> PandasVersion,
             index_columns |-> IF index = "range" THEN << RangeIndex >>
                               ELSE << FieldIndex(index_field) >>,
             columns |-> IF index = "range" THEN entries
                         ELSE Append(entries,
                                     ColumnDescriptor(index_label, index_field, << "int64" >>))],
         origin |-> origin]

InitMeta ==
    /\ op \in {"normalize_column_order", "make_meta"}
    /\ \E columns \in Frames, index \in Indexes, partition_keys \in PartitionKeys :
          args = [obj |-> IF op = "make_meta"
                          THEN FrameSchema(columns, index, {})
                          ELSE _schema_compat(FrameSchema(columns, index, OriginOf(1))),
                  origin |-> OriginOf(1),
                  partition_keys |-> partition_keys]
    /\ pc = IF op = "make_meta" THEN "normalize" ELSE "classify"
    /\ locals = IF op = "make_meta"
                THEN [fields |-> args.obj.fields, columns |-> args.obj.metadata.columns]
                ELSE [schema |-> args.obj, cols |-> NoColumns]
    /\ i = 1
    /\ result = NoResult
    /\ store = << >>
    /\ schemas = << >> /\ ignore_pandas = FALSE /\ reference = << >>
    /\ null_cols_in_reference = {} /\ schemas_to_evaluate = << >> /\ j = 0
    /\ seen = {} /\ heap = HeapInit(<< >>)

MetaStep(next_pc, next_i, next_locals) ==
    /\ pc' = next_pc
    /\ i' = next_i
    /\ locals' = next_locals
    /\ UNCHANGED << op, args, result, store, schemas, ignore_pandas, reference,
                    null_cols_in_reference, schemas_to_evaluate, j, seen, heap >>

NormalizeColumn ==
    /\ pc = "normalize"
    /\ i <= Len(locals.columns)
    /\ locals.columns[i].name # None
    /\ ~ NormalizedTuple(args.obj, i).raised
    /\ MetaStep(pc, i + 1, NormalizeStep(locals, args.obj, i))

SkipUnnamed ==
    /\ pc = "normalize"
    /\ i <= Len(locals.columns)
    /\ locals.columns[i].name = None
    /\ MetaStep(pc, i + 1, NormalizeStep(locals, args.obj, i))

WrapSchema ==
    /\ pc = "normalize"
    /\ i > Len(locals.columns)
    /\ MetaStep("classify", 1,
                [schema |-> WrappedSchema(locals, args.obj, args.origin),
                 cols |-> NoColumns])

Classify(kind) ==
    /\ pc = "classify"
    /\ i <= Len(locals.schema.metadata.columns)
    /\ ClassifyKind(locals.schema.metadata.columns[i], args.partition_keys) = kind
    /\ MetaStep(pc, i + 1,
                [locals EXCEPT
                    !.cols = ClassifyStep(@, locals.schema, locals.schema.metadata.columns[i],
                                          args.partition_keys)])

ClassifyMisc == Classify("misc")

ClassifyPartition == Classify("partition")

ClassifyPayload == Classify("payload")

OrderColumns ==
    /\ pc = "classify"
    /\ i > Len(locals.schema.metadata.columns)
    /\ pc' = "done"
    /\ result' = Returned(<< OrderedSchema(locals.schema,
                                          Ordered(locals.cols, args.partition_keys)) >>)
    /\ UNCHANGED << op, args, locals, store, validation >>

NextMeta ==
    \/ NormalizeColumn
    \/ SkipUnnamed
    \/ WrapSchema
    \/ ClassifyMisc
    \/ ClassifyPartition
    \/ ClassifyPayload
    \/ OrderColumns

SpecMeta == InitMeta /\ [][NextMeta]_vars

(***************************************************************************)
(* Serialization, the schema store and equality.  The bytes of a schema    *)
(* are modelled by what pyarrow reads back from them: the fields as the    *)
(* parquet footer holds them and the metadata.  The hash of a bytes value  *)
(* is modelled by the value.  A key is the sequence of the parts the key   *)
(* string is formatted from, the store a function from keys to bytes.      *)
(***************************************************************************)
\* pq.write_metadata(..., coerce_timestamps="us"): the footer holds
\* timestamps in microseconds, with the time zone they had.
CoerceTimestamps(type) ==
    CASE type = "timestamp[ns]" -> "timestamp[us]"
      [] type = "timestamp[ns, tz=UTC]" -> "timestamp[us, tz=UTC]"
      [] OTHER -> type

_schema2bytes(schema) ==
    [fields |-> [k \in DOMAIN schema.fields |->
                    F(schema.fields[k].name, CoerceTimestamps(schema.fields[k].type))],
     metadata |-> schema.metadata]

\* if f.type == pa.timestamp("us"): the type without a time zone.
UpgradedField(f) ==
    IF f.type = "timestamp[us]" THEN F(f.name, "timestamp[ns]") ELSE f

_bytes2schema(data) ==
    [fields |-> [idx \in DOMAIN data.fields |-> UpgradedField(data.fields[idx])],
     metadata |-> data.metadata]

_get_common_metadata_key(dataset_uuid, table) ==
    << dataset_uuid, table, "TABLE_METADATA_FILE" >>

\* store.put(key, data) and store.get(key)
Put(kv, key, data) ==
    [k \in DOMAIN kv \cup {key} |-> IF k = key THEN data ELSE kv[k]]

store_schema_metadata(schema, dataset_uuid, kv, table) ==
    Put(kv, _get_common_metadata_key(dataset_uuid, table), _schema2bytes(schema))

read_schema_metadata(dataset_uuid, kv, table) ==
    LET key    == _get_common_metadata_key(dataset_uuid, table)
        schema == _bytes2schema(kv[key])
    IN  _schema_compat(SchemaWrapper(schema.fields, schema.metadata, {key}))

\* SchemaWrapper.__eq__ and SchemaWrapper.__hash__
__eq__(self, other) == equals(self, other, FALSE)

__hash__(self) == _schema2bytes(self)

(***************************************************************************)
(* op = "schema_metadata": store_schema_metadata(schema, dataset_uuid,     *)
(* store, table) (pc = "store") followed by read_schema_metadata of        *)
(* locals.dataset_uuid and locals.table from the same store                *)
(* (pc = "read").  op = "__eq__": self == other and the hashes of the two. *)
(***************************************************************************)
StoredLayouts ==
    { << F("t", "timestamp[ns]"), F("a", "int64") >>,
      << F("a", "int64"), F("t", "timestamp[ns, tz=UTC]") >>,
      << F("t", "timestamp[us]") >>,
      << F("a", "int64") >>,
      << F("a", "string"), F("b", "int64") >> }

StoredSchemas(origin) ==
    { SchemaWrapper(fields, metadata, origin) :
         fields \in StoredLayouts, metadata \in {NoPandas} }
    \cup { SchemaWrapper(fields, PandasMetadata(fields, v), origin) :
             fields \in StoredLayouts, v \in WrittenVersions \cup {PandasVersion} }

Datasets == {"dataset1", "dataset2"}

TableNames == {"table", "core"}

InputOrigin == {<< "input" >>}

OtherOrigin == {<< "other" >>}

\* The stores a call starts with: an empty one, and one that holds the
\* schema of another table.
InitialStores ==
    { << >>,
      Put(<< >>, _get_common_metadata_key("dataset0", "table"),
          _schema2bytes(SchemaWrapper(<< F("z", "int64") >>, NoPandas, InputOrigin))) }

InitSchema ==
    /\ op \in {"schema_metadata", "__eq__"}
    /\ IF op = "schema_metadata"
       THEN /\ \E schema \in StoredSchemas(InputOrigin), dataset_uuid \in Datasets,
                  table \in TableNames :
                  args = [schema |-> schema, dataset_uuid |-> dataset_uuid, table |-> table]
            /\ \E dataset_uuid \in Datasets, table \in TableNames :
                  locals = [dataset_uuid |-> dataset_uuid, table |-> table]
            /\ store \in InitialStores
            /\ pc = "store"
       ELSE /\ \E self \in StoredSchemas(InputOrigin),
                  other \in StoredSchemas(InputOrigin) \cup StoredSchemas(OtherOrigin) :
                  args = [self |-> self, other |-> other]
            /\ locals = << >>
            /\ store = << >>
            /\ pc = "compare"
    /\ result = NoResult
    /\ schemas = << >> /\ ignore_pandas = FALSE /\ i = 0 /\ reference = << >>
    /\ null_cols_in_reference = {} /\ schemas_to_evaluate = << >> /\ j = 0
    /\ seen = {} /\ heap = HeapInit(<< >>)

StoreSchemaMetadata ==
    /\ op = "schema_metadata" /\ pc = "store"
    /\ store' = store_schema_metadata(args.schema, args.dataset_uuid, store, args.table)
    /\ pc' = "read"
    /\ UNCHANGED << op, args, locals, result, validation >>

ReadSchemaMetadata ==
    /\ op = "schema_metadata" /\ pc = "read"
    /\ _get_common_metadata_key(locals.dataset_uuid, locals.table) \in DOMAIN store
    /\ result' = Returned(<< read_schema_metadata(locals.dataset_uuid, store, locals.table) >>)
    /\ pc' = "done"
    /\ UNCHANGED << op, args, locals, store, validation >>

ReadMissing ==
    /\ op = "schema_metadata" /\ pc = "read"
    /\ _get_common_metadata_key(locals.dataset_uuid, locals.table) \notin DOMAIN store
    /\ result' = Raised("KeyError", {}, {})
    /\ pc' = "done"
    /\ UNCHANGED << op, args, locals, store, validation >>

CompareSchemas ==
    /\ op = "__eq__" /\ pc = "compare"
    /\ result' = Returned([eq |-> __eq__(args.self, args.other),
                           hash_self |-> __hash__(args.self),
                           hash_other |-> __hash__(args.other)])
    /\ pc' = "done"
    /\ UNCHANGED << op, args, locals, store, validation >>

NextSchema ==
    \/ StoreSchemaMetadata
    \/ ReadSchemaMetadata
    \/ ReadMissing
    \/ CompareSchemas

SpecSchema == InitSchema /\ [][NextSchema]_vars

(***************************************************************************)
(* The origins in the message of the ValueError validate_compatible raises *)
(* for a schema violation.  An origin label and the text made of labels    *)
(* are Python strings, modelled as the sequences of their characters.      *)
(* op = "schema_violation": the two calls of _fmt_origin, on the origin of *)
(* the current schema (pc = "origin_schema") and on the origin of the      *)
(* reference (pc = "origin_reference"), and the raise (pc = "raise").      *)
(***************************************************************************)
\* ord(c) of the characters of the labels, the separator and the braces.
Ord(c) ==
    CASE c = " " -> 32
      [] c = "," -> 44
      [] c = "." -> 46
      [] c = "Z" -> 90
      [] c = "a" -> 97
      [] c = "b" -> 98
      [] c = "{" -> 123
      [] c = "}" -> 125

\* s < t for two Python strings: at the first position where they differ,
\* s has ended or has the character of the smaller code point.
TextLess(s, t) ==
    \E k \in DOMAIN t :
        /\ \A n \in 1..(k - 1) : n <= Len(s) /\ s[n] = t[n]
        /\ \/ k = Len(s) + 1
           \/ k <= Len(s) /\ Ord(s[k]) < Ord(t[k])

\* sorted(origin) of a set of strings.
RECURSIVE sorted(_)
sorted(origin) ==
    IF origin = {} THEN << >>
    ELSE LET least == CHOOSE s \in origin : \A t \in origin : ~ TextLess(t, s)
         IN  << least >> \o sorted(origin \ {least})

\* ", ".join(origin)
RECURSIVE Join(_)
Join(origin) ==
    IF origin = << >> THEN << >>
    ELSE IF Len(origin) = 1 THEN origin[1]
    ELSE origin[1] \o << ",", " " >> \o Join(Tail(origin))

max_len == 200

ellipsis == << ".", ".", "." >>

\* inner_msg[:n]
Slice(inner_msg, n) ==
    SubSeq(inner_msg, 1, IF Len(inner_msg) < n THEN Len(inner_msg) ELSE n)

\* A test that cuts every text longer than max_len.
NeedsCut_AtMaxLen(inner_msg) == Len(inner_msg) > max_len

\* if len(inner_msg) > max_len + len(ellipsis)
NeedsCut(inner_msg) == Len(inner_msg) > max_len + Len(ellipsis)

\* "{{{}}}".format(inner_msg)
Braces(inner_msg) == << "{" >> \o inner_msg \o << "}" >>

_fmt_origin(origin) ==
    LET inner_msg == Join(sorted(origin))
    IN  Braces(IF NeedsCut(inner_msg) THEN Slice(inner_msg, max_len) \o ellipsis
               ELSE inner_msg)

\* The label of n characters "a", and the origins of the schemas: no label,
\* one label, and two or three labels given in another order than the
\* sorted one, with texts around max_len characters.
Label(c, n) == [k \in 1..n |-> c]

Origins ==
    {{}}
    \cup { {Label("a", n)} : n \in (max_len - 2)..(max_len + 6) }
    \cup { {Label("b", 1), Label("a", n)} : n \in (max_len - 5)..(max_len + 3) }
    \cup { {Label("b", 2), Label("a", n), Label("Z", 1)} :
             n \in (max_len - 9)..(max_len - 1) }

InitFmt ==
    /\ op = "schema_violation"
    /\ \E origin1 \in Origins, origin2 \in Origins :
          args = [current |-> [origin |-> origin1], reference |-> [origin |-> origin2]]
    /\ locals = [origin_schema |-> << >>, origin_reference |-> << >>]
    /\ store = << >>
    /\ pc = "origin_schema"
    /\ result = NoResult
    /\ schemas = << >> /\ ignore_pandas = FALSE /\ i = 0 /\ reference = << >>
    /\ null_cols_in_reference = {} /\ schemas_to_evaluate = << >> /\ j = 0
    /\ seen = {} /\ heap = HeapInit(<< >>)

\* The origin the call at pc formats.
FmtArgument ==
    IF pc = "origin_schema" THEN args.current.origin ELSE args.reference.origin

FmtReturn ==
    /\ locals' = [locals EXCEPT ![pc] = _fmt_origin(FmtArgument)]
    /\ pc' = IF pc = "origin_schema" THEN "origin_reference" ELSE "raise"
    /\ UNCHANGED << op, args, store, result, validation >>

\* _fmt_origin on a text that is cut.
FmtCut ==
    /\ op = "schema_violation" /\ pc \in {"origin_schema", "origin_reference"}
    /\ NeedsCut(Join(sorted(FmtArgument)))
    /\ FmtReturn

\* _fmt_origin on a text that is kept whole.
FmtWhole ==
    /\ op = "schema_violation" /\ pc \in {"origin_schema", "origin_reference"}
    /\ ~ NeedsCut(Join(sorted(FmtArgument)))
    /\ FmtReturn

\* raise ValueError(exception_message), the message by its two origin texts.
RaiseSchemaViolation ==
    /\ op = "schema_violation" /\ pc = "raise"
    /\ result' = Raised("IncompatibleSchemaError", locals.origin_schema,
                        locals.origin_reference)
    /\ pc' = "done"
    /\ UNCHANGED << op, args, locals, store, validation >>

NextFmt ==
    \/ FmtCut
    \/ FmtWhole
    \/ RaiseSchemaViolation

SpecFmt == InitFmt /\ [][NextFmt]_vars

(***************************************************************************)
(* LazyStore (kartothek/core/utils.py) and KartothekDatasetSource          *)
(* (kartothek/io/intake/datasource.py).  A Python value is [type, value]:  *)
(* a str with its text, a pydantic SecretStr with the text it hides, a     *)
(* function, or a value of another type.  args are the arguments of the    *)
(* constructor, locals is the source object (self), store the world around *)
(* it: the number of DatasetFactory objects created so far and the         *)
(* argument of the last call of get_store_from_url.  result is the last    *)
(* method called and the factory it handed on.                             *)
(***************************************************************************)
Value(type, value) == [type |-> type, value |-> value]

SecretStr(value) == Value("SecretStr", value)

\* SecretStr.get_secret_value(): the text as a str.
get_secret_value(secret) == Value("str", secret.value)

\* repr(SecretStr(...)): the text is masked.
repr(secret) == Value("str", "SecretStr('**********')")

\* LazyStore.__init__
LazyStore(store_url, mask) ==
    [type |-> "LazyStore",
     mask |-> mask,
     _store_url |-> IF store_url.type = "str" /\ mask THEN SecretStr(store_url.value)
                    ELSE store_url]

\* LazyStore.__call__: the argument get_store_from_url is called with.
LazyStoreCall(self) ==
    IF self.mask THEN get_secret_value(self._store_url) ELSE self._store_url

\* DatasetFactory(dataset_uuid=..., store_factory=...), the n-th one created.
DatasetFactory(dataset_uuid, store_factory, n) ==
    [dataset_uuid |-> dataset_uuid, store_factory |-> store_factory, id |-> n]

\* _load_ds_factory on the object self in the world w: the object and the
\* world after it.
_load_ds_factory(self, w) ==
    IF self._ds_factory = None
    THEN [self |-> [self EXCEPT !._ds_factory =
                       << DatasetFactory(self.dataset_uuid, self._store_fact,
                                         w.factories + 1) >>],
          world |-> [w EXCEPT !.factories = w.factories + 1]]
    ELSE [self |-> self, world |-> w]

\* read_dataset_as_ddf(factory=self._ds_factory, **self.kwargs), by the
\* factory it is made from.
read_dataset_as_ddf(factory) == [factory |-> factory]

_load_dask_dataframe(self, w) ==
    LET loaded == _load_ds_factory(self, w)
    IN  IF loaded.self.dataframe = None
        THEN [loaded EXCEPT !.self.dataframe =
                 << read_dataset_as_ddf(loaded.self._ds_factory) >>]
        ELSE loaded

\* Schema(npartitions=..., extra_metadata=..., dtype=..., shape=...), by the
\* dataframe it describes.
Schema(dataframe) == [dataframe |-> dataframe]

_get_schema(self, w) ==
    LET loaded == _load_dask_dataframe(self, w)
    IN  IF loaded.self._schema = None
        THEN [loaded EXCEPT !.self._schema = << Schema(loaded.self.dataframe) >>]
        ELSE loaded

\* The universe: the arguments of the constructor.
StoreUrls ==
    { Value("str", "hfs://data"), SecretStr("hfs://data"),
      Value("str", "memory://"), SecretStr("memory://"),
      Value("function", "store_factory"), Value("int", "0") }

SourceMethods ==
    {"arrow_schema", "to_dask", "read", "_get_partition", "read_chunked"}

NoFactories == [factories |-> 0, get_store_from_url |-> None]

InitSource ==
    /\ op = "KartothekDatasetSource"
    /\ \E dataset_uuid \in Datasets, store_url \in StoreUrls, table \in TableNames,
          mask_store_url \in BOOLEAN :
          args = [dataset_uuid |-> dataset_uuid, store_url |-> store_url,
                  table |-> table, mask_store_url |-> mask_store_url]
    /\ locals = << >>
    /\ store = NoFactories
    /\ pc = "__init__"
    /\ result = NoResult
    /\ schemas = << >> /\ ignore_pandas = FALSE /\ i = 0 /\ reference = << >>
    /\ null_cols_in_reference = {} /\ schemas_to_evaluate = << >> /\ j = 0
    /\ seen = {} /\ heap = HeapInit(<< >>)

\* The object after __init__ with the store factory and the arguments
\* intake has captured.
NewSource(store_fact, captured_store_url) ==
    [_store_fact |-> store_fact,
     _captured_init_args |-> << args.dataset_uuid, captured_store_url >>,
     table |-> args.table,
     dataset_uuid |-> args.dataset_uuid,
     _ds_factory |-> None,
     dataframe |-> None,
     _schema |-> None]

Constructed(self) ==
    /\ locals' = self
    /\ pc' = "ready"
    /\ UNCHANGED << op, args, store, result, validation >>

\* __init__ with a str or a SecretStr.
InitLazyStore ==
    /\ op = "KartothekDatasetSource" /\ pc = "__init__"
    /\ args.store_url.type \in {"str", "SecretStr"}
    /\ LET store_fact == LazyStore(args.store_url, args.mask_store_url)
       IN  Constructed(NewSource(store_fact,
                                 IF args.mask_store_url THEN repr(store_fact._store_url)
                                 ELSE args.store_url))

\* __init__ with a callable.
InitCallable ==
    /\ op = "KartothekDatasetSource" /\ pc = "__init__"
    /\ args.store_url.type = "function"
    /\ Constructed(NewSource(args.store_url, args.store_url))

\* __init__ with anything else.
InitNotImplemented ==
    /\ op = "KartothekDatasetSource" /\ pc = "__init__"
    /\ args.store_url.type \notin {"str", "SecretStr", "function"}
    /\ result' = Raised("NotImplementedError", {}, {})
    /\ pc' = "done"
    /\ UNCHANGED << op, args, locals, store, validation >>

\* The return of a method: the object and the world it leaves, the method
\* and the factory it has used.
MethodReturn(method, after) ==
    /\ locals' = after.self
    /\ store' = after.world
    /\ result' = Returned([method |-> method, factory |-> after.self._ds_factory])
    /\ UNCHANGED << op, args, pc, validation >>

Ready == op = "KartothekDatasetSource" /\ pc = "ready"

arrow_schema == Ready /\ MethodReturn("arrow_schema", _load_ds_factory(locals, store))

read_chunked ==
    Ready /\ MethodReturn("read_chunked", [self |-> locals, world |-> store])

_get_partition == Ready /\ MethodReturn("_get_partition", _get_schema(locals, store))

to_dask == Ready /\ MethodReturn("to_dask", _get_schema(locals, store))

read == Ready /\ MethodReturn("read", _get_schema(locals, store))

\* self._store_fact() of a LazyStore, as the DatasetFactory or any other
\* holder of the store factory calls it.
CallLazyStore ==
    /\ Ready
    /\ locals._store_fact.type = "LazyStore"
    /\ store' = [store EXCEPT !.get_store_from_url = << LazyStoreCall(locals._store_fact) >>]
    /\ UNCHANGED << op, args, locals, pc, result, validation >>

NextSource ==
    \/ InitLazyStore
    \/ InitCallable
    \/ InitNotImplemented
    \/ arrow_schema
    \/ read_chunked
    \/ _get_partition
    \/ to_dask
    \/ read
    \/ CallLazyStore

SpecSource == InitSource /\ [][NextSource]_vars

(***************************************************************************)
(* Properties.                                                             *)
(***************************************************************************)
Names(schema) == [k \in DOMAIN schema.fields |-> schema.fields[k].name]

\* The reference carries a field that none of the inputs has at that place.
Healed ==
    /\ reference # << >>
    /\ \A k \in DOMAIN schemas : reference[1].fields # schemas[k].fields

\* C1: at every point of the resolver, and so at its return, the null-column
\* set of the reference is the set of the reference's null fields and is a
\* subset of the null-column set recorded with every entry of pending, which
\* is the set of that entry's null fields.
C1_RefNullsSubsetOfPending ==
    /\ reference # << >> => null_cols_in_reference = NullColumns(reference[1])
    /\ \A k \in DOMAIN schemas_to_evaluate :
          /\ schemas_to_evaluate[k].null_columns = NullColumns(schemas_to_evaluate[k].schema)
          /\ null_cols_in_reference \subseteq schemas_to_evaluate[k].null_columns

\* The resolver has returned after a superset step (the first input was
\* demoted to pending) followed by a healing step.
C1_Witness ==
    /\ pc = "compare"
    /\ Len(schemas_to_evaluate) = 2
    /\ schemas_to_evaluate[1].schema.origin = OriginOf(1)
    /\ schemas_to_evaluate[1].null_columns # schemas_to_evaluate[2].null_columns
    /\ Healed

Orders(n) ==
    { p \in [1..n -> 1..n] : \A a, b \in 1..n : a # b => p[a] # p[b] }

Permuted(ss, p) == [k \in DOMAIN ss |-> ss[p[k]]]

Passes(r) == r.kind = "ok"

\* C2: validate_compatible passes on a list if and only if it passes on
\* every permutation of the list.
C2_OrderIndependentOutcome ==
    (Done /\ Compatible) =>
        \A p \in Orders(Len(schemas)) :
            Passes(validate_compatible(Permuted(schemas, p), ignore_pandas)) = Passes(result)

\* Two schemas have a column of the same name with different non-null types.
TypeConflict(x, y) ==
    \E m \in DOMAIN x.fields, n \in DOMAIN y.fields :
        /\ x.fields[m].name = y.fields[n].name
        /\ x.fields[m].type # NullType
        /\ y.fields[n].type # NullType
        /\ x.fields[m].type # y.fields[n].type

NamesWithout(schema, nulls) ==
    LET Keep(name) == name \notin nulls
    IN  SelectSeq(Names(schema), Keep)

\* Two schemas differ in field names or field order once the columns that are
\* null in either of them are set aside.
LayoutConflict(x, y) ==
    NamesWithout(x, NullColumns(x) \cup NullColumns(y))
        # NamesWithout(y, NullColumns(x) \cup NullColumns(y))

RealConflict(ss) ==
    \E x, y \in DOMAIN ss : TypeConflict(ss[x], ss[y]) \/ LayoutConflict(ss[x], ss[y])

MixedDescriptors(ss) ==
    /\ \E k \in DOMAIN ss : HasPandasKey(ss[k])
    /\ \E k \in DOMAIN ss : ~ HasPandasKey(ss[k])

SameColumnNames(ss) == \A x, y \in DOMAIN ss : Names(ss[x]) = Names(ss[y])

NullOnlyDivergence(ss) ==
    /\ SameColumnNames(ss)
    /\ \A x, y \in DOMAIN ss : ~ TypeConflict(ss[x], ss[y])

\* The type of column c across the inputs: the non-null type if an input has
\* one, null otherwise.
ConcreteType(ss, c) ==
    IF \E k \in DOMAIN ss : ss[k].fields[c].type # NullType
    THEN (CHOOSE f \in { ss[k].fields[c] : k \in DOMAIN ss } : f.type # NullType).type
    ELSE NullType

ReturnsConcreteTypes ==
    /\ result.kind = "ok"
    /\ Len(result.value) = 1
    /\ Names(result.value[1]) = Names(schemas[1])
    /\ \A c \in DOMAIN result.value[1].fields :
          result.value[1].fields[c].type = ConcreteType(schemas, c)

\* C4 as stated: inputs that diverge only in null columns are accepted and
\* the returned reference has the concrete type of every column.
C4_NullOnlyDivergenceAccepted ==
    (Done /\ Compatible /\ Len(schemas) > 0 /\ NullOnlyDivergence(schemas)) =>
        ReturnsConcreteTypes

\* C4 as amended: the same, for a list that does not mix schemas with and
\* without pandas metadata under ignore_pandas = false; such a list raises
\* MixedDescriptorError.
C4_NullOnlyDivergenceAcceptedUnlessMixed ==
    (Done /\ Compatible /\ Len(schemas) > 0 /\ NullOnlyDivergence(schemas)) =>
        IF MixedDescriptors(schemas) /\ ~ ignore_pandas
        THEN result.kind = "MixedDescriptorError"
        ELSE ReturnsConcreteTypes

\* Inputs with non-overlapping null columns have been accepted with a healed
\* reference.
C4_Witness ==
    /\ Done /\ Compatible
    /\ Len(schemas) >= 2
    /\ NullOnlyDivergence(schemas)
    /\ result.kind = "ok"
    /\ \A k \in DOMAIN schemas : result.value[1].fields # schemas[k].fields
    /\ NullColumns(result.value[1]) = {}

\* C5: the call ends by returning a schema (None only for the empty list),
\* by raising MixedDescriptorError or by raising IncompatibleSchemaError.
C5_OnlyThreeOutcomes ==
    (Done /\ Compatible) =>
        /\ result.kind \in {"ok", "MixedDescriptorError", "IncompatibleSchemaError"}
        /\ result.kind = "ok" => ((result.value = << >>) <=> (Len(schemas) = 0))

\* C6: when the reference lacks a column of the candidate's null columns, the
\* reference enters the comparison with all of its fields and the comparison
\* of the pair fails.
C6_RefusedStripFailsComparison ==
    (pc = "compare" /\ j <= Len(schemas_to_evaluate)
        /\ StripRefused(reference[1], schemas_to_evaluate[j].null_columns)) =>
        /\ reference_to_compare(reference[1], schemas_to_evaluate[j].null_columns).fields
               = reference[1].fields
        /\ PairDiffers(reference[1], schemas_to_evaluate[j])

\* C7: under ignore_pandas = false a list that mixes schemas with and without
\* pandas metadata raises MixedDescriptorError, before any comparison; under
\* ignore_pandas = true or without any pandas metadata it is never raised.
C7_MixedDescriptorsRaise ==
    (Done /\ Compatible) =>
        /\ (MixedDescriptors(schemas) /\ ~ ignore_pandas) =>
               (result.kind = "MixedDescriptorError" /\ j = 0)
        /\ (ignore_pandas \/ ~ _pandas_in_schemas(schemas)) =>
               result.kind # "MixedDescriptorError"

RECURSIVE InputOrigins(_, _)
InputOrigins(ss, k) ==
    IF k > Len(ss) THEN {} ELSE ss[k].origin \cup InputOrigins(ss, k + 1)

\* C8: when the resolver returns, the reference and the pending candidates
\* carry the origins of the inputs, one input each; a schema returned for a
\* non-empty list has the union of the origins of all inputs as its origin;
\* an IncompatibleSchemaError reports the origin of the reference alone (the
\* origin of one input) and the origin of the candidate it was compared with.
C8_OriginsUnionedOnSuccessOnly ==
    Compatible =>
        /\ pc = "compare" =>
              /\ Len(schemas_to_evaluate) + Len(reference) = Len(schemas)
              /\ \A k \in DOMAIN schemas :
                    Cardinality({ m \in DOMAIN schemas_to_evaluate :
                                    schemas_to_evaluate[m].schema.origin = schemas[k].origin })
                      + (IF reference # << >> /\ reference[1].origin = schemas[k].origin
                         THEN 1 ELSE 0) = 1
        /\ (Done /\ result.kind = "ok" /\ Len(schemas) > 0) =>
              result.value[1].origin = InputOrigins(schemas, 1)
        /\ (Done /\ result.kind = "IncompatibleSchemaError") =>
              /\ result.origin_reference = reference[1].origin
              /\ \E k \in DOMAIN schemas : result.origin_reference = schemas[k].origin
              /\ result.origin_schema = schemas_to_evaluate[j].schema.origin
              /\ result.origin_schema # result.origin_reference

\* Three schemas have been accepted after a healing step, and another run
\* has failed on its second pair, after the first pair had been checked.
C8_Witness ==
    /\ Done /\ Compatible
    /\ Len(schemas) = 3
    /\ Healed
    /\ result.kind = "ok"
    /\ Cardinality(result.value[1].origin) = 3

C8_WitnessFailure ==
    /\ Done /\ Compatible
    /\ result.kind = "IncompatibleSchemaError"
    /\ j = 2

\* C9: on the empty list validate_compatible never has a reference or a
\* pending entry, processes no schema and returns None, and
\* validate_shared_columns records no column and returns, whatever
\* ignore_pandas is.
C9_EmptyInput ==
    Len(schemas) = 0 =>
        /\ reference = << >>
        /\ schemas_to_evaluate = << >>
        /\ null_cols_in_reference = {}
        /\ seen = {}
        /\ i = 1
        /\ Done => result = Returned(<< >>)

C9_Witness ==
    /\ Len(schemas) = 0
    /\ Done
    /\ op = "validate_shared_columns"
    /\ ignore_pandas

C9_WitnessCompatible ==
    /\ Len(schemas) = 0
    /\ Done
    /\ Compatible
    /\ ~ ignore_pandas

\* Version tags a schema can carry.
VersionTags == WrittenVersions \cup {"0.25.3", PandasVersion}

Retagged(ss, tags) ==
    [k \in DOMAIN ss |-> [ss[k] EXCEPT !.metadata.pandas_version = tags[k]]]

KindClass(kind) == IF kind \in HealFailureKinds THEN "HealFailure" ELSE kind

\* Two results are the same outcome: the same kind of end and, for a returned
\* schema, the same fields and origin and, when pandas metadata is compared
\* (ignore_pandas = false), the same metadata.
SameOutcome(r1, r2, ip) ==
    /\ KindClass(r1.kind) = KindClass(r2.kind)
    /\ Len(r1.value) = Len(r2.value)
    /\ r1.value # << >> =>
          /\ equals(r1.value[1], r2.value[1], ~ ip)
          /\ r1.value[1].origin = r2.value[1].origin

AllPandas(ss) == \A k \in DOMAIN ss : HasPandasKey(ss[k])

\* C10: for a list of schemas that all carry pandas metadata, every list that
\* differs from it only in the version tags has the same outcome.
C10_VersionTagIrrelevant ==
    (Done /\ Compatible /\ AllPandas(schemas)) =>
        \A tags \in [DOMAIN schemas -> VersionTags] :
            SameOutcome(validate_compatible(Retagged(schemas, tags), ignore_pandas),
                        result, ignore_pandas)

C10_Witness ==
    /\ Done /\ Compatible
    /\ Len(schemas) >= 2
    /\ AllPandas(schemas)
    /\ ~ ignore_pandas
    /\ result.kind = "ok"
    /\ result.value[1].metadata.pandas_version # schemas[1].metadata.pandas_version

\* The outcomes that are a ValueError of validate_compatible.
ValueErrorKinds == {"MixedDescriptorError", "IncompatibleSchemaError"}

\* The metadata of a schema without the version tag.
MetadataContent(schema) == [schema.metadata EXCEPT !.pandas_version = ""]

\* Two inputs have identical fields and pandas metadata that differs in more
\* than the version tag.
MetadataMismatch(ss) ==
    \E x, y \in DOMAIN ss :
        /\ ss[x].fields = ss[y].fields
        /\ HasPandasKey(ss[x]) /\ HasPandasKey(ss[y])
        /\ MetadataContent(ss[x]) # MetadataContent(ss[y])

\* C11: a list with two schemas of identical fields whose pandas metadata
\* differs in more than the version tag is rejected (ignore_pandas = false).
C11_MetadataMismatchRejected ==
    (Done /\ Compatible /\ ~ ignore_pandas /\ MetadataMismatch(schemas)) =>
        result.kind \in ValueErrorKinds

\* C18: validate_compatible leaves its inputs alone: every step, those of a
\* run through the healing branch and the one that raises included, leaves
\* every input schema with the fields, metadata and origin it was passed in
\* with, and leaves the null-column set of every entry already in pending
\* as it is.
C18_InputsAndPendingSetsUnchanged ==
    [][ Compatible =>
          /\ heap'.objects = schemas
          /\ \A n \in DOMAIN heap.pending_sets :
                heap'.sets[heap.pending_sets[n]] = heap.sets[heap.pending_sets[n]] ]_vars

\* A call that healed a reference which was one of the input objects, by
\* removing columns from the set of the reference, has returned.
C18_Witness ==
    /\ Done /\ Compatible /\ result.kind = "ok"
    /\ ~ has_pandas
    /\ Healed
    /\ heap.reference_object = 0
    /\ heap.sets[heap.reference_set] # NullColumns(schemas[heap.reference_set])
    /\ Len(heap.pending_sets) = 2

\* The fields of the healed reference: those of small, with every field
\* whose name is in smallNulls but not in bigNulls replaced at its place by
\* the field of that name of big, which is not of type null.
HealedFields(healed, small, big, smallNulls, bigNulls) ==
    /\ Len(healed.fields) = Len(small.fields)
    /\ \A k \in DOMAIN small.fields :
          IF small.fields[k].name \in smallNulls \ bigNulls
          THEN /\ field_by_name(big, small.fields[k].name) # << >>
               /\ healed.fields[k] = field_by_name(big, small.fields[k].name)[1]
               /\ healed.fields[k].type # NullType
          ELSE healed.fields[k] = small.fields[k]

\* C19: an iteration that takes the incomparable branch completes with: the
\* schema with the smaller null set as the reference (the existing reference
\* on a tie), the other one, big, appended to pending with its own null set,
\* the fields of smallNulls \ bigNulls healed from big and all others
\* unchanged, and refNulls = smallNulls \cap bigNulls, a subset of bigNulls.
C19_HealBranchHeals ==
    InBranch("heal") =>
        LET after      == HealStep(R, current, null_columns)
            swap       == Cardinality(null_columns) < Cardinality(null_cols_in_reference)
            small      == IF swap THEN current ELSE reference[1]
            big        == IF swap THEN reference[1] ELSE current
            smallNulls == IF swap THEN null_columns ELSE null_cols_in_reference
            bigNulls   == IF swap THEN null_cols_in_reference ELSE null_columns
        IN  /\ after.status = "ok"
            /\ after.pending = Append(schemas_to_evaluate, Entry(big, bigNulls))
            /\ HealedFields(after.reference[1], small, big, smallNulls, bigNulls)
            /\ after.reference[1].metadata = small.metadata
            /\ after.reference[1].origin = small.origin
            /\ after.nulls = smallNulls \cap bigNulls
            /\ after.nulls \subseteq bigNulls

SharedCall == op = "validate_shared_columns"

\* The comparable columns of a schema: the named payload columns when
\* descriptor metadata is in play, otherwise all field names.
IndexFields(schema) ==
    { schema.metadata.index_columns[k].field_name : k \in DOMAIN schema.metadata.index_columns }

ComparableColumns(schema, hp) ==
    IF hp
    THEN { schema.metadata.columns[k].field_name :
             k \in { n \in DOMAIN schema.metadata.columns :
                       /\ schema.metadata.columns[n].name # << >>
                       /\ schema.metadata.columns[n].field_name \notin IndexFields(schema) } }
    ELSE { schema.fields[k].name : k \in DOMAIN schema.fields }

\* Every comparable column has the same field in all schemas that contain it.
SharedColumnsAgree(ss, hp) ==
    \A a, b \in DOMAIN ss :
        \A col \in ComparableColumns(ss[a], hp) \cap ComparableColumns(ss[b], hp) :
            (field_by_name(ss[a], col) # << >> /\ field_by_name(ss[b], col) # << >>) =>
                field_by_name(ss[a], col) = field_by_name(ss[b], col)

\* The schema with its columns, and their descriptors, in reverse order.
ReverseColumns(schema) ==
    LET n == Len(schema.fields)
        m == Len(schema.metadata.columns)
    IN  [schema EXCEPT
            !.fields = [k \in 1..n |-> schema.fields[n + 1 - k]],
            !.metadata.columns = [k \in 1..m |-> schema.metadata.columns[m + 1 - k]]]

\* The lists with the same schemas in another order, any of them with its
\* columns in another order.
Rearranged(ss) ==
    { [k \in DOMAIN ss |-> IF k \in rev THEN ReverseColumns(ss[p[k]]) ELSE ss[p[k]]] :
         p \in Orders(Len(ss)), rev \in SUBSET (DOMAIN ss) }

\* C12: validate_shared_columns returns normally if and only if every
\* comparable column has the identical field in all schemas that contain
\* it, raises IncompatibleColumnError otherwise, and ends the same way for
\* every order of the schemas and of the columns inside a schema.
C12_SharedColumnsAgreeIff ==
    (Done /\ SharedCall) =>
        /\ result.kind = "ok" <=> SharedColumnsAgree(schemas, has_pandas)
        /\ result.kind \in {"ok", "IncompatibleColumnError"}
        /\ \A ss \in Rearranged(schemas) :
              validate_shared_columns(ss, ignore_pandas) = result.kind

TypeCall == op = "normalize_type"

\* The stepwise call ends as the function does.
TypeCallAgrees ==
    (Done /\ TypeCall) =>
        LET t == normalize_type(args.t_pa, args.t_pd, args.t_np, args.metadata)
        IN  IF t.raised THEN result.kind = "TypeError" ELSE result = Returned(t)

Renormalized(t) == normalize_type(t.t_pa, t.t_pd, t.t_np, t.metadata)

\* C15: for every type up to the nesting depth the call returns the tuple of
\* the canonical type table (signed integer, unsigned integer, float, list
\* of T from the tuple of T, dictionary of V as the tuple of V driven by
\* the aux tag, anything else unchanged), and the tuple returned is a fixed
\* point of normalize_type.
C15_CanonicalTypeTable ==
    (Done /\ TypeCall) =>
        /\ result.kind = "ok"
        /\ is_signed_integer(args.t_pa) => result.value = Int64Tuple
        /\ is_unsigned_integer(args.t_pa) => result.value = UInt64Tuple
        /\ is_floating(args.t_pa) => result.value = Float64Tuple
        /\ is_list(args.t_pa) =>
              LET inner == normalize_type(value_type(args.t_pa),
                                          << ListSlice(args.t_pd[1]) >>, None, None)
              IN  result.value =
                      TypeTuple(list_(inner.t_pa),
                                << Str("list[") \o (IF inner.t_pd = None THEN Str("None")
                                                    ELSE inner.t_pd[1]) \o Str("]") >>,
                                << Str("object") >>, None)
        /\ is_dictionary(args.t_pa) =>
              result.value = normalize_type(value_type(args.t_pa), args.t_np, args.t_np, None)
        /\ args.t_pa[1] \in {"string", "bool"} =>
              result.value = TypeTuple(args.t_pa, args.t_pd, args.t_np, args.metadata)
        /\ Renormalized(result.value) = result.value

OrderCall == op = "normalize_column_order"

MakeCall == op = "make_meta"

\* The stepwise calls end as the functions do.
MetaCallAgrees ==
    /\ (Done /\ OrderCall) =>
          result = Returned(<< normalize_column_order(args.obj, args.partition_keys) >>)
    /\ (Done /\ MakeCall) =>
          result = Returned(<< make_meta(args.obj, args.origin, args.partition_keys) >>)

\* The position of a key in the key list, of a descriptor in a descriptor
\* list.
KeyIndex(name, partition_keys) ==
    CHOOSE k \in DOMAIN partition_keys : partition_keys[k] = name

EntryIndex(cmd, columns) == CHOOSE k \in DOMAIN columns : columns[k] = cmd

\* The place of a descriptor in the order: 1 a partition key, 2 another
\* named column, 3 an entry without a name.
OrderClass(cmd, partition_keys) ==
    IF cmd.name = None THEN 3
    ELSE IF InList(cmd.name[1], partition_keys) THEN 1
    ELSE 2

\* Descriptor x comes before descriptor y in the documented order.
ComesBefore(x, y, partition_keys, columns) ==
    \/ OrderClass(x, partition_keys) < OrderClass(y, partition_keys)
    \/ /\ OrderClass(x, partition_keys) = 1 /\ OrderClass(y, partition_keys) = 1
       /\ KeyIndex(x.name[1], partition_keys) < KeyIndex(y.name[1], partition_keys)
    \/ /\ OrderClass(x, partition_keys) = 2 /\ OrderClass(y, partition_keys) = 2
       /\ StrLess(x.name[1], y.name[1])
    \/ /\ OrderClass(x, partition_keys) = 3 /\ OrderClass(y, partition_keys) = 3
       /\ EntryIndex(x, columns) < EntryIndex(y, columns)

\* The descriptors of a list whose field the schema has.
WithField(columns, schema) ==
    SelectSeq(columns, LAMBDA cmd : get_field_index(schema, cmd.field_name) >= 0)

\* out holds the descriptors of schema in the documented order and the
\* fields of the descriptors that have one, in the order of the descriptors.
InClaimedOrder(out, schema, partition_keys) ==
    LET columns == schema.metadata.columns
        ordered == out.metadata.columns
    IN  /\ Len(ordered) = Len(columns)
        /\ { ordered[k] : k \in DOMAIN ordered } = { columns[k] : k \in DOMAIN columns }
        /\ \A p, q \in DOMAIN ordered :
              p < q => ComesBefore(ordered[p], ordered[q], partition_keys, columns)
        /\ Len(out.fields) = Len(WithField(ordered, schema))
        /\ \A k \in DOMAIN out.fields :
              /\ out.fields[k] = field_by_name(schema, WithField(ordered, schema)[k].field_name)[1]
              /\ WithField(ordered, out)[k] = WithField(ordered, schema)[k]

\* C13: normalize_column_order returns the descriptors with the partition
\* keys that are present first, in the order of the key list, then the other
\* named columns sorted by name, then the entries without a name in their
\* original order, and the fields in the order of their descriptors, so that
\* the i-th descriptor with a field describes the i-th field.
C13_ColumnOrder ==
    (Done /\ OrderCall) =>
        /\ result.kind = "ok"
        /\ InClaimedOrder(result.value[1], args.obj, args.partition_keys)

\* A call has returned on a schema whose partition key came after other
\* columns, whose payload was not sorted and which has an entry without a
\* name in front and a descriptor without a field.
C13_Witness ==
    /\ Done /\ OrderCall
    /\ args.partition_keys = << "b" >>
    /\ args.obj.metadata.columns[1].name = None
    /\ Len(args.obj.metadata.columns) = 5
    /\ Len(result.value[1].fields) = 4
    /\ result.value[1].fields[1].name = "b"
    /\ result.value[1].fields[4].name = "None"
    /\ result.value[1].fields # args.obj.fields

\* The schemas with the fields and the descriptors of the schema, each in
\* any order.
PhysicalOrders(schema) ==
    { [schema EXCEPT
          !.fields = [k \in DOMAIN schema.fields |-> schema.fields[p[k]]],
          !.metadata.columns =
              [k \in DOMAIN schema.metadata.columns |-> schema.metadata.columns[q[k]]]] :
         p \in Orders(Len(schema.fields)), q \in Orders(Len(schema.metadata.columns)) }

\* C14: ordering the output of normalize_column_order again, with the same
\* key list, returns it unchanged, and every schema with the same fields
\* and descriptors in another physical order is normalized to the same
\* sequence of fields.
C14_IdempotentAndOrderFree ==
    (Done /\ OrderCall) =>
        /\ result.kind = "ok"
        /\ normalize_column_order(result.value[1], args.partition_keys) = result.value[1]
        /\ \A other \in PhysicalOrders(args.obj) :
              normalize_column_order(other, args.partition_keys).fields
                  = result.value[1].fields

\* A call has returned on a schema of three columns that were not in the
\* normalized order.
C14_Witness ==
    /\ Done /\ OrderCall
    /\ Len(args.obj.fields) = 3
    /\ result.value[1].fields # args.obj.fields
    /\ Cardinality(PhysicalOrders(args.obj)) > 1

\* The descriptor of the result for a field name.
EntryOf(schema, field_name) ==
    CHOOSE cmd \in { schema.metadata.columns[k] : k \in DOMAIN schema.metadata.columns } :
        cmd.field_name = field_name

\* The k-th descriptor of obj and its field are normalized in the result out.
EntryNormalized(out, obj, k) ==
    LET cmd == obj.metadata.columns[k]
        t   == NormalizedTuple(obj, k)
    IN  /\ EntryOf(out, cmd.field_name) =
              [cmd EXCEPT !.pandas_type = t.t_pd, !.numpy_type = t.t_np,
                          !.metadata = t.metadata]
        /\ field_by_name(out, cmd.field_name) # None =>
              field_by_name(out, cmd.field_name)[1].type = t.t_pa

\* The k-th descriptor of obj and its field are in the result out as they
\* are in obj.
EntryUntouched(out, obj, k) ==
    LET cmd == obj.metadata.columns[k]
    IN  /\ EntryOf(out, cmd.field_name) = cmd
        /\ field_by_name(out, cmd.field_name) # None =>
              field_by_name(out, cmd.field_name) = field_by_name(obj, cmd.field_name)

NarrowTypes == (SignedIntegers \cup UnsignedIntegers \cup Floats) \ {"int64", "uint64", "float64"}

\* C20: make_meta of a frame normalizes every descriptor entry, those
\* without a logical name included: the type of its field and its type tag,
\* aux tag and metadata are what normalize_type returns, and no field of the
\* result that a descriptor refers to has a narrow integer or float type.
C20_EveryEntryNormalized ==
    (Done /\ MakeCall) =>
        /\ result.kind = "ok"
        /\ \A k \in DOMAIN args.obj.metadata.columns :
              EntryNormalized(result.value[1], args.obj, k)
        /\ \A k \in DOMAIN result.value[1].fields :
              result.value[1].fields[k].type[1] \notin NarrowTypes

\* C20, amended: make_meta of a frame normalizes every descriptor entry
\* that has a logical name; an entry without one and its field are in the
\* result as pyarrow derived them.
C20_NamedEntriesNormalized ==
    (Done /\ MakeCall) =>
        /\ result.kind = "ok"
        /\ \A k \in DOMAIN args.obj.metadata.columns :
              IF args.obj.metadata.columns[k].name # None
              THEN EntryNormalized(result.value[1], args.obj, k)
              ELSE EntryUntouched(result.value[1], args.obj, k)

\* make_meta has returned for a frame with a column labelled None of a
\* narrow type and named columns of narrow types: the named ones are
\* normalized, the unnamed one is not.
C20_Witness ==
    /\ Done /\ MakeCall
    /\ field_by_name(args.obj, "None") = << F("None", << "int8" >>) >>
    /\ field_by_name(result.value[1], "None") = << F("None", << "int8" >>) >>
    /\ field_by_name(args.obj, "a") = << F("a", << "int8" >>) >>
    /\ field_by_name(result.value[1], "a") = << F("a", << "int64" >>) >>
    /\ EntryOf(result.value[1], "a").pandas_type = << Str("int64") >>
    /\ EntryOf(result.value[1], "c").pandas_type = << Str("list[") \o Str("int64") \o Str("]") >>

EqCall == op = "__eq__"

\* C16: self == other exactly if the two have the same fields and the same
\* metadata, whatever their origins, and two schemas that are == have equal
\* hashes.
C16_EqualityAndHash ==
    (Done /\ EqCall) =>
        /\ result.value.eq <=> (/\ args.self.fields = args.other.fields
                                /\ args.self.metadata = args.other.metadata)
        /\ result.value.eq => result.value.hash_self = result.value.hash_other

StoreCall == op = "schema_metadata"

\* The read is of the dataset and the table of the write.
SameTable == locals.dataset_uuid = args.dataset_uuid /\ locals.table = args.table

IsNanoseconds(type) == type \in {"timestamp[ns]", "timestamp[ns, tz=UTC]"}

IsTimestamp(type) ==
    type \in {"timestamp[ns]", "timestamp[ns, tz=UTC]", "timestamp[us]", "timestamp[us, tz=UTC]"}

\* C17: store_schema_metadata followed by read_schema_metadata of the same
\* dataset and table on the same store finds what was written, under the
\* same key, and returns a schema with the same field names in the same
\* order, in which every field that was a nanosecond timestamp is a
\* nanosecond timestamp again and every field that is not a timestamp is
\* unchanged.
C17_RoundTripRestoresNanoseconds ==
    (Done /\ StoreCall /\ SameTable) =>
        /\ result.kind = "ok"
        /\ result.value[1].origin = {_get_common_metadata_key(args.dataset_uuid, args.table)}
        /\ Names(result.value[1]) = Names(args.schema)
        /\ \A k \in DOMAIN args.schema.fields :
              /\ IsNanoseconds(args.schema.fields[k].type) =>
                    IsNanoseconds(result.value[1].fields[k].type)
              /\ ~ IsTimestamp(args.schema.fields[k].type) =>
                    result.value[1].fields[k] = args.schema.fields[k]

FmtCall == op = "schema_violation" /\ Done

\* The rendering of an origin as documented: the sorted, comma-joined text,
\* cut to its first 200 characters and the marker when it is longer.
CappedAt200(origin) ==
    LET text == Join(sorted(origin))
    IN  IF Len(text) > 200
        THEN << "{" >> \o SubSeq(text, 1, 200) \o << ".", ".", "." >> \o << "}" >>
        ELSE << "{" >> \o text \o << "}" >>

\* C21: in the message of the schema violation, an origin whose sorted,
\* comma-joined text is longer than 200 characters is rendered as its first
\* 200 characters followed by "...", and a shorter text is rendered whole
\* and without the marker.
C21_OriginTextCappedAt200 ==
    FmtCall =>
        /\ result.origin_schema = CappedAt200(args.current.origin)
        /\ result.origin_reference = CappedAt200(args.reference.origin)

\* The rendering of an origin whose text is cut when it is longer than the
\* 200 characters and the marker together.
CutBeyondMarker(origin) ==
    LET text == Join(sorted(origin))
    IN  IF Len(text) > 200 + 3
        THEN << "{" >> \o SubSeq(text, 1, 200) \o << ".", ".", "." >> \o << "}" >>
        ELSE << "{" >> \o text \o << "}" >>

\* C21 as amended: an origin whose sorted, comma-joined text is longer than
\* 203 characters (200 and the length of the marker) is rendered as its
\* first 200 characters followed by "...", and a text of at most 203
\* characters is rendered whole and without the marker.
C21_OriginTextCutBeyond203 ==
    FmtCall =>
        /\ result.origin_schema = CutBeyondMarker(args.current.origin)
        /\ result.origin_reference = CutBeyondMarker(args.reference.origin)

\* A message with an origin text of 201 to 203 characters rendered whole and
\* one of more than 203 characters rendered cut, both of several labels.
C21_Witness ==
    /\ FmtCall
    /\ Cardinality(args.current.origin) > 1
    /\ Cardinality(args.reference.origin) > 1
    /\ Len(Join(sorted(args.current.origin))) \in 201..203
    /\ Len(Join(sorted(args.reference.origin))) > 203
    /\ Len(result.origin_schema) = Len(Join(sorted(args.current.origin))) + 2
    /\ Len(result.origin_reference) = 200 + 3 + 2
    /\ SubSeq(result.origin_reference, 201, 205) = << "a", ".", ".", ".", "}" >>

SourceCall == op = "KartothekDatasetSource"

\* C22: every method of a KartothekDatasetSource that uses the dataset
\* factory runs with a factory that has been created, whatever was called
\* before it, and a factory once created is never replaced.
C22_FactoryLoadedBeforeUse ==
    SourceCall =>
        /\ result.kind = "ok" /\ result.value.method \in SourceMethods
              => result.value.factory # None
        /\ store.factories <= 1
        /\ pc = "ready" /\ locals._ds_factory # None => locals._ds_factory[1].id = 1

\* C23: a call of the LazyStore hands the URL to get_store_from_url as a
\* plain str of its text, whether the URL was given as a str or as a
\* SecretStr and whether it is masked or not.
C23_PlainUrlPassedToStoreFactory ==
    SourceCall /\ store.get_store_from_url # None =>
        store.get_store_from_url[1] = Value("str", args.store_url.value)

====
